---------------------------- MODULE Spec2Model ----------------------------
(***************************************************************************)
(* State-machine model of the invoice classification batch run:           *)
(*   main.py            cache warm-up, ingestion, stage 2, the interactive *)
(*                      seed-and-propagate session, the hash matcher       *)
(*   template_manager   the template store                                 *)
(*   learning_interface the authoring call start_learning_gui              *)
(*   document_processor process_document                                   *)
(* Perceptual hashes are sets of bit positions; a page image carries the   *)
(* hashes the imagehash library computes from it.                          *)
(***************************************************************************)
EXTENDS Integers, Sequences, FiniteSets, TLC

(***************************************************************************)
(* Bounds of the model.                                                    *)
(***************************************************************************)
MaxFiles == 2
MaxCache == 2

(***************************************************************************)
(* Program constants.                                                      *)
(***************************************************************************)
TRIAGE_HASH_SIZE == 8
TRIAGE_MATCH_THRESHOLD == 5
HASH_MATCH_THRESHOLD == 2

HashBits == TRIAGE_HASH_SIZE * TRIAGE_HASH_SIZE
HexLen == HashBits \div 4

(***************************************************************************)
(* Perceptual hashes (imagehash.ImageHash): the set of positions of the    *)
(* bits that are 1.  a - b of the library counts the differing bits.       *)
(***************************************************************************)
Bits(k) == 0 .. (k - 1)

HashDistance(a, b) == Cardinality((a \ b) \cup (b \ a))

(* str(ImageHash): one hex digit per four bits, most significant first.    *)
NibbleBit(h, d, j, w) == IF (4 * (d - 1) + j) \in h THEN w ELSE 0

hash_to_hex(h) ==
    [d \in 1 .. HexLen |->
        NibbleBit(h, d, 0, 8) + NibbleBit(h, d, 1, 4)
          + NibbleBit(h, d, 2, 2) + NibbleBit(h, d, 3, 1)]

(* A stored hex string is a sequence of digits; the digit NotHex stands    *)
(* for a character int(.., 16) rejects with ValueError.                    *)
NotHex == 16

HexValid(s) == s # <<>> /\ \A d \in 1 .. Len(s) : s[d] \in 0 .. 15

DigitBit(v, j) ==
    CASE j = 0 -> v \div 8 = 1
      [] j = 1 -> (v % 8) \div 4 = 1
      [] j = 2 -> (v % 4) \div 2 = 1
      [] OTHER -> v % 2 = 1

hex_to_hash(s) ==
    { 4 * (d - 1) + j : d \in 1 .. Len(s), j \in 0 .. 3 } \cap
    { b \in 0 .. (4 * Len(s) - 1) : DigitBit(s[(b \div 4) + 1], b % 4) }

BadHex == [d \in 1 .. HexLen |-> NotHex]

(***************************************************************************)
(* Vendor names and file names are sequences of characters.                *)
(***************************************************************************)
SpaceChars == {" "}
JoinChars == {" ", "_", "-"}
(* "json" stands for the four letters of the suffix where they are part of  *)
(* a name.                                                                 *)
WordChars == {"A", "B", "a", "b", "_", "json"}

LowerChar(c) == CASE c = "A" -> "a" [] c = "B" -> "b" [] OTHER -> c

RECURSIVE LStrip(_)
LStrip(s) == IF s # <<>> /\ Head(s) \in SpaceChars THEN LStrip(Tail(s)) ELSE s

RECURSIVE RStrip(_)
RStrip(s) ==
    IF s # <<>> /\ s[Len(s)] \in SpaceChars
    THEN RStrip(SubSeq(s, 1, Len(s) - 1)) ELSE s

(* re.sub(r'[\s_-]+', '_', s): every maximal run becomes one underscore.   *)
RECURSIVE CollapseJoins(_)
CollapseJoins(s) ==
    IF s = <<>> THEN <<>>
    ELSE IF Head(s) \in JoinChars
         THEN IF Len(s) > 1 /\ s[2] \in JoinChars
              THEN CollapseJoins(Tail(s))
              ELSE <<"_">> \o CollapseJoins(Tail(s))
         ELSE <<Head(s)>> \o CollapseJoins(Tail(s))

sanitize_filename(vendor_id) ==
    LET lowered == [k \in 1 .. Len(vendor_id) |-> LowerChar(vendor_id[k])]
        stripped == RStrip(LStrip(lowered))
        kept == SelectSeq(stripped, LAMBDA c : c \in WordChars \cup JoinChars)
    IN  CollapseJoins(kept) \o <<".json">>

(* Path.stem: the name without its suffix; a name that is nothing but a    *)
(* dot and letters (".json") has no suffix and is its own stem.            *)
Stem(filename) ==
    IF Len(filename) = 1 THEN <<".", "json">>
    ELSE SubSeq(filename, 1, Len(filename) - 1)

NameA == <<"A">>
NameB == <<"B">>
NameEmpty == <<>>

(***************************************************************************)
(* Page images.  A PDF page is a PIL image; it carries its whole-page      *)
(* average hash and the phash of its crop at each identifier area.  An     *)
(* image file comes out of process_document as the path of the PNG it      *)
(* wrote, not as an image.                                                 *)
(***************************************************************************)
AreaLogo == [x |-> 0, y |-> 0, width |-> 40, height |-> 20]

(* An identifier box that reaches over the right edge of a 300 dpi page.   *)
AreaOverEdge == [x |-> 2400, y |-> 0, width |-> 200, height |-> 20]

Areas == {AreaLogo, AreaOverEdge}

(* Image.crop(box) of a box that reaches outside the image returns the     *)
(* region padded with black; it raises nothing, so the page has a crop and *)
(* a phash of it at every box.                                             *)
PilImage(avgBits, cropBits) ==
    [kind |-> "PIL", width |-> 2480, height |-> 3508,
     avg |-> Bits(avgBits), crop |-> [a \in Areas |-> Bits(cropBits)]]

PathObject ==
    [kind |-> "Path", width |-> 0, height |-> 0,
     avg |-> {}, crop |-> [a \in Areas |-> {}]]

Look1 == PilImage(0, 0)
Look2 == PilImage(5, 2)
Look3 == PilImage(11, 8)

Looks == {Look1, Look2, Look3}

average_hash(image) == image.avg

phash_of_crop(image, area) == image.crop[area]

(***************************************************************************)
(* Template records (Python dicts): keys is the set of keys present.       *)
(***************************************************************************)
InvoiceFields == << [field_name |-> "invoice_number", coordinates |-> AreaLogo] >>

LegacyKeys == {"vendor_name", "identifier_area", "identifier_hash", "fields"}
GuiKeys == {"vendor_name", "primary_anchor", "secondary_anchor", "fields"}

Template(keys, name, idhex, triagehex) ==
    [form |-> "dict", keys |-> keys, vendor_name |-> name, identifier_area |-> AreaLogo,
     identifier_hash |-> idhex, triage_hash |-> triagehex, fields |-> InvoiceFields]

Has(t, key) == key \in t.keys

NoTemplate == Template({}, <<>>, <<>>, <<>>)

(* What a template file can hold instead of a JSON object:                 *)
(*   unreadable  open() raises an OSError                                  *)
(*   bad_json    text that json.load rejects with JSONDecodeError          *)
(*   bad_utf8    bytes that are not UTF-8: UnicodeDecodeError              *)
(*   number      a JSON number other than 0                                *)
(*   list        a JSON array                                              *)
(*   partial     the beginning of a JSON text, as json.dump leaves it when *)
(*               it has not finished: JSONDecodeError                      *)
FileContent(form) == [NoTemplate EXCEPT !.form = form]


(***************************************************************************)
(* Cache entries (main.py: cached_item).  has_triage is FALSE where the    *)
(* code stores None for precomputed_triage_hash.                           *)
(***************************************************************************)
CachedItem(t, hasTriage) ==
    [vendor_name |-> t.vendor_name,
     identifier_area |-> t.identifier_area,
     precomputed_precise_hash |-> hex_to_hash(t.identifier_hash),
     has_triage |-> hasTriage,
     precomputed_triage_hash |-> IF hasTriage THEN hex_to_hash(t.triage_hash) ELSE {},
     full_template_data |-> t]

(***************************************************************************)
(* The template store: a function from file name to the parsed content of  *)
(* the file.                                                               *)
(***************************************************************************)
StoreWith(st, filename, t) ==
    [f \in (DOMAIN st) \cup {filename} |-> IF f = filename THEN t ELSE st[f]]

EmptyStore == [f \in {} |-> NoTemplate]

(* template_manager.load_template: None is modelled by found = FALSE.  The *)
(* except clause catches IOError and JSONDecodeError; a UnicodeDecodeError *)
(* is neither and leaves the function.                                     *)
load_template(st, vendor_id) ==
    IF vendor_id = <<>> THEN [found |-> FALSE, data |-> NoTemplate, raised |-> ""]
    ELSE IF sanitize_filename(vendor_id) \notin DOMAIN st
    THEN [found |-> FALSE, data |-> NoTemplate, raised |-> ""]
    ELSE IF st[sanitize_filename(vendor_id)].form \in {"unreadable", "bad_json", "partial"}
    THEN [found |-> FALSE, data |-> NoTemplate, raised |-> ""]
    ELSE IF st[sanitize_filename(vendor_id)].form = "bad_utf8"
    THEN [found |-> FALSE, data |-> NoTemplate, raised |-> "UnicodeDecodeError"]
    ELSE [found |-> TRUE, data |-> st[sanitize_filename(vendor_id)], raised |-> ""]

(* template_manager.check_template_exists                                  *)
check_template_exists(st, vendor_id) ==
    vendor_id # <<>> /\ sanitize_filename(vendor_id) \in DOMAIN st

(* Variant: the record is written straight into the final file.            *)
TempPath_InPlace(filename) == filename

(* line 28: temp_path = TEMPLATES_DIR / f"~{filename}.tmp"                  *)
TempPath(filename) == <<"~">> \o filename \o <<".tmp">>

(* os.replace(src, dst)                                                    *)
Replace(st, src, dst) ==
    [f \in ((DOMAIN st) \ {src}) \cup {dst} |-> IF f = dst THEN st[src] ELSE st[f]]

(* template_manager.save_template: io_ok = FALSE is an IOError/OSError of   *)
(* the write or the rename, which is logged and swallowed.                 *)
save_template(st, vendor_id, template_data, io_ok) ==
    IF vendor_id = <<>> THEN st
    ELSE IF ~io_ok THEN st
    ELSE StoreWith(st, sanitize_filename(vendor_id), template_data)

(* The exception one iteration of the warm-up loop is left with, "" if     *)
(* none: the one load_template raises, or the TypeError of                 *)
(* "identifier_area" in template when template is a number (line 58).      *)
FileRaises(st, template_file) ==
    LET r == load_template(st, Stem(template_file))
    IN  IF r.raised # "" THEN r.raised
        ELSE IF r.found /\ r.data.form = "number" THEN "TypeError"
        ELSE ""

(* One iteration of the warm-up loop of load_and_cache_templates.          *)
CacheAfterFile(c, st, template_file) ==
    LET r == load_template(st, Stem(template_file))
        t == r.data
    IN  IF r.found /\ Has(t, "identifier_area") /\ Has(t, "identifier_hash")
           /\ Has(t, "vendor_name")
        THEN IF ~HexValid(t.identifier_hash) THEN c
             ELSE IF Has(t, "triage_hash") /\ t.triage_hash # <<>>
                  THEN IF ~HexValid(t.triage_hash) THEN c
                       ELSE Append(c, CachedItem(t, TRUE))
                  ELSE Append(c, CachedItem(t, FALSE))
        ELSE c

(* The loop of lines 56-75 over the files in the order the glob lists      *)
(* them: the cache it leaves and the exception that ended it, if any.      *)
RECURSIVE WarmCache(_, _, _)
WarmCache(c, st, order) ==
    IF order = <<>> THEN [cache |-> c, error |-> ""]
    ELSE IF FileRaises(st, Head(order)) # ""
    THEN [cache |-> c, error |-> FileRaises(st, Head(order))]
    ELSE WarmCache(CacheAfterFile(c, st, Head(order)), st, Tail(order))

(* Variant: the warm-up adds to what the cache holds.                      *)
ResetCache_Keeps(c) == c

(* line 49: TEMPLATE_CACHE = []                                            *)
ResetCache(c) == <<>>

(* The files templates_dir.glob("*.json") matches, and the orders in which  *)
(* it may list them.                                                       *)
JsonFiles(st) == { f \in DOMAIN st : f # <<>> /\ f[Len(f)] = ".json" }

GlobOrders(st) ==
    { o \in [1 .. Cardinality(JsonFiles(st)) -> JsonFiles(st)] :
        \A a, b \in 1 .. Cardinality(JsonFiles(st)) : a # b => o[a] # o[b] }

(***************************************************************************)
(* identify_vendor_via_hashing.                                            *)
(***************************************************************************)
(* Variant: the threshold test written with < instead of <=.               *)
TriagePass_Strict(cached_template, incoming_triage_hash) ==
    \/ ~cached_template.has_triage
    \/ HashDistance(incoming_triage_hash, cached_template.precomputed_triage_hash)
         < TRIAGE_MATCH_THRESHOLD

TriagePass(cached_template, incoming_triage_hash) ==
    \/ ~cached_template.has_triage
    \/ HashDistance(incoming_triage_hash, cached_template.precomputed_triage_hash)
         <= TRIAGE_MATCH_THRESHOLD

(* The tier-1 loop over TEMPLATE_CACHE, from entry k on.                   *)
RECURSIVE TriageLoop(_, _, _, _)
TriageLoop(c, k, incoming_triage_hash, candidates) ==
    IF k > Len(c) THEN candidates
    ELSE TriageLoop(c, k + 1, incoming_triage_hash,
                    IF TriagePass(c[k], incoming_triage_hash)
                    THEN Append(candidates, c[k]) ELSE candidates)

TriageCandidates(c, image) == TriageLoop(c, 1, average_hash(image), <<>>)

PreciseDistance(candidate_template, image) ==
    HashDistance(phash_of_crop(image, candidate_template.identifier_area),
                 candidate_template.precomputed_precise_hash)

PrecisePass(candidate_template, image) ==
    PreciseDistance(candidate_template, image) <= HASH_MATCH_THRESHOLD

NoMatch == [outcome |-> "none", vendor_name |-> <<>>, template |-> NoTemplate]

Raised(exc) == [outcome |-> exc, vendor_name |-> <<>>, template |-> NoTemplate]

(* Variant: the candidate with the smallest precise distance wins.         *)
PreciseLoop_BestMatch(candidates, k, image) ==
    LET passing == { j \in k .. Len(candidates) : PrecisePass(candidates[j], image) }
    IN  IF passing = {} THEN NoMatch
        ELSE LET b == CHOOSE j \in passing :
                        \A i \in passing :
                            \/ PreciseDistance(candidates[j], image)
                                 < PreciseDistance(candidates[i], image)
                            \/ /\ PreciseDistance(candidates[j], image)
                                    = PreciseDistance(candidates[i], image)
                               /\ j <= i
             IN  [outcome |-> "match",
                  vendor_name |-> candidates[b].vendor_name,
                  template |-> candidates[b].full_template_data]

(* The tier-2 loop over the candidates, from candidate k on.  The except   *)
(* IndexError of lines 100-102 is never taken: neither crop nor phash      *)
(* raises it.                                                              *)
RECURSIVE PreciseLoop(_, _, _)
PreciseLoop(candidates, k, image) ==
    IF k > Len(candidates) THEN NoMatch
    ELSE IF PrecisePass(candidates[k], image)
         THEN [outcome |-> "match",
               vendor_name |-> candidates[k].vendor_name,
               template |-> candidates[k].full_template_data]
         ELSE PreciseLoop(candidates, k + 1, image)

(* Variant: a page no hash matches is given to the first cached template.  *)
identify_vendor_via_hashing_Fallback(c, image) ==
    IF c = <<>> THEN NoMatch
    ELSE IF image.kind # "PIL" THEN Raised("AttributeError")
    ELSE IF PreciseLoop(TriageCandidates(c, image), 1, image) = NoMatch
    THEN [outcome |-> "match", vendor_name |-> c[1].vendor_name,
          template |-> c[1].full_template_data]
    ELSE PreciseLoop(TriageCandidates(c, image), 1, image)

(* A Path in place of an image (see process_document) has no convert():    *)
(* imagehash.average_hash raises AttributeError.                           *)
identify_vendor_via_hashing(c, image) ==
    IF c = <<>> THEN NoMatch
    ELSE IF image.kind # "PIL" THEN Raised("AttributeError")
    ELSE IF TriageCandidates(c, image) = <<>> THEN NoMatch
    ELSE PreciseLoop(TriageCandidates(c, image), 1, image)

(***************************************************************************)
(* identify_vendor_via_features (feature_matcher.py).                      *)
(* A descriptor is the set of its 1-bits and NORM_HAMMING counts the       *)
(* differing bits.  A page is the sequence of the keypoints ORB finds on   *)
(* it, each with its position and descriptor.  Positions are whole pixels. *)
(* LOWE_RATIO is held in percent and the verification threshold of 7.5 px  *)
(* in half pixels.                                                         *)
(***************************************************************************)
LOWE_RATIO_PERCENT == 75
MIN_PRIMARY_INLIERS == 12
MIN_SECONDARY_INLIERS_CONSISTENT == 10
SECONDARY_VERIFICATION_THRESHOLD_HALF_PX == 15

(* ransacReprojThreshold of cv2.estimateAffinePartial2D (its default).     *)
RansacReprojThreshold == 3

FeatureDes(f) == { 4 * f, 4 * f + 1, 4 * f + 2, 4 * f + 3 }

PtAdd(p, t) == << p[1] + t[1], p[2] + t[2] >>

PtSub(p, q) == << p[1] - q[1], p[2] - q[2] >>

SqDist(p, q) == (p[1] - q[1]) * (p[1] - q[1]) + (p[2] - q[2]) * (p[2] - q[2])

(* One anchor of a cached feature template: n keypoints in a row.          *)
Anchor(first, n, y) ==
    [anchor_descriptors |-> [i \in 1 .. n |-> FeatureDes(first + i)],
     anchor_keypoints_pts |-> [i \in 1 .. n |-> << 10 * i, y >>]]

OrbTemplate(name, first) ==
    [vendor_name |-> name,
     primary_anchor |-> Anchor(first, MIN_PRIMARY_INLIERS, 0),
     secondary_anchor |-> Anchor(first + 20, MIN_SECONDARY_INLIERS_CONSISTENT, 100),
     full_template_data |-> Template(GuiKeys, name, <<>>, <<>>)]

(* bf.knnMatch(query, des_incoming, k=2) for one query descriptor: the two *)
(* nearest page descriptors, nearest first, the lower index first on a     *)
(* tie; fewer than two when the page has fewer than two descriptors.       *)
NearestBut(distances, excluded) ==
    CHOOSE j \in (DOMAIN distances) \ excluded :
        \A i \in (DOMAIN distances) \ excluded :
            \/ distances[j] < distances[i]
            \/ distances[j] = distances[i] /\ j <= i

DMatch(queryIdx, trainIdx, distances) ==
    [queryIdx |-> queryIdx, trainIdx |-> trainIdx, distance |-> distances[trainIdx]]

NoDMatch == [queryIdx |-> 0, trainIdx |-> 0, distance |-> 0]

KnnPair(queryIdx, q, page) ==
    LET distances == [i \in DOMAIN page |-> HashDistance(q, page[i].des)]
        first == NearestBut(distances, {})
        second == NearestBut(distances, {first})
    IN  IF Len(page) = 0 THEN [len |-> 0, m |-> NoDMatch, n |-> NoDMatch]
        ELSE IF Len(page) = 1
        THEN [len |-> 1, m |-> DMatch(queryIdx, 1, distances), n |-> NoDMatch]
        ELSE [len |-> 2,
              m |-> DMatch(queryIdx, first, distances),
              n |-> DMatch(queryIdx, second, distances)]

knnMatch(query, page) == [i \in DOMAIN query |-> KnnPair(i, query[i], page)]

(* lines 56-59: m.distance < LOWE_RATIO * n.distance                       *)
RatioTest(match_pair) ==
    /\ match_pair.len = 2
    /\ 100 * match_pair.m.distance < LOWE_RATIO_PERCENT * match_pair.n.distance

(* good_matches_primary / good_matches_secondary                           *)
GoodMatches(anchor, page) ==
    LET pairs == SelectSeq(knnMatch(anchor.anchor_descriptors, page), RatioTest)
    IN  [k \in DOMAIN pairs |-> pairs[k].m]

SrcPts(anchor, good) == [k \in DOMAIN good |-> anchor.anchor_keypoints_pts[good[k].queryIdx]]

DstPts(page, good) == [k \in DOMAIN good |-> page[good[k].trainIdx].pt]

(* cv2.estimateAffinePartial2D(src, dst, method=cv2.RANSAC), with the      *)
(* transforms it searches cut down to translations: a sample of two        *)
(* matches gives a model when both have the same offset; the model with    *)
(* the most inliers wins, the earliest sample on a tie; with no model the  *)
(* matrix is None.  The search is seeded the same way on every call.       *)
InliersOf(t, src, dst) ==
    { k \in DOMAIN src :
        SqDist(PtAdd(src[k], t), dst[k]) <= RansacReprojThreshold * RansacReprojThreshold }

SampleModels(src, dst) ==
    { k \in DOMAIN src :
        \E j \in DOMAIN src : j # k /\ PtSub(dst[j], src[j]) = PtSub(dst[k], src[k]) }

NoTransform == [found |-> FALSE, t |-> << 0, 0 >>, inliers |-> 0]

estimateAffinePartial2D(src, dst) ==
    LET samples == SampleModels(src, dst)
        support == [k \in samples |->
                       Cardinality(InliersOf(PtSub(dst[k], src[k]), src, dst))]
        b == CHOOSE k \in samples :
                 \A j \in samples :
                     \/ support[k] > support[j]
                     \/ support[k] = support[j] /\ k <= j
    IN  IF samples = {} THEN NoTransform
        ELSE [found |-> TRUE, t |-> PtSub(dst[b], src[b]), inliers |-> support[b]]

PrimaryTransform(template, page) ==
    LET good == GoodMatches(template.primary_anchor, page)
    IN  estimateAffinePartial2D(SrcPts(template.primary_anchor, good), DstPts(page, good))

(* Variant: the lock looks at the number of accepted matches only.         *)
PrimaryLock_CountOnly(template, page) ==
    Len(GoodMatches(template.primary_anchor, page)) >= MIN_PRIMARY_INLIERS

(* lines 61-72: enough accepted matches, a transform, enough inliers.      *)
PrimaryLock(template, page) ==
    LET good == GoodMatches(template.primary_anchor, page)
        affine_matrix ==
            estimateAffinePartial2D(SrcPts(template.primary_anchor, good), DstPts(page, good))
    IN  /\ Len(good) >= MIN_PRIMARY_INLIERS
        /\ affine_matrix.found
        /\ affine_matrix.inliers >= MIN_PRIMARY_INLIERS

(* Variant: every accepted secondary match counts as consistent.           *)
ConsistentPointCount_Unverified(template, page, transform) ==
    Len(GoodMatches(template.secondary_anchor, page))

(* lines 94-106: cv2.transform predicts the secondary points, the norm of  *)
(* actual - predicted is compared with the threshold.                      *)
ConsistentPointCount(template, page, transform) ==
    LET good == GoodMatches(template.secondary_anchor, page)
        src == SrcPts(template.secondary_anchor, good)
        actual == DstPts(page, good)
    IN  Cardinality({ k \in DOMAIN good :
            4 * SqDist(actual[k], PtAdd(src[k], transform.t))
              < SECONDARY_VERIFICATION_THRESHOLD_HALF_PX
                  * SECONDARY_VERIFICATION_THRESHOLD_HALF_PX })

(* lines 90-108                                                            *)
SecondaryConfirmed(template, page, transform) ==
    /\ Len(GoodMatches(template.secondary_anchor, page))
         >= MIN_SECONDARY_INLIERS_CONSISTENT
    /\ ConsistentPointCount(template, page, transform)
         >= MIN_SECONDARY_INLIERS_CONSISTENT

NoFeatureMatch == [outcome |-> "none", vendor_name |-> <<>>, template |-> NoTemplate]

FeatureMatch(template) ==
    [outcome |-> "match", vendor_name |-> template.vendor_name,
     template |-> template.full_template_data]

(* Variant: a template that is rejected ends the scan.                     *)
AfterReject_EndsScan(i, n) == n + 1

(* continue: the loop goes on with the next template.                      *)
AfterReject(i, n) == i + 1

(***************************************************************************)
(* Pages for the feature matcher: the keypoints of a template's anchors    *)
(* as they show on a page, moved by an offset.                             *)
(***************************************************************************)
Keypoint(pt, des) == [pt |-> pt, des |-> des]

(* Keypoints from..to of an anchor, each moved by offset.                  *)
Placed(anchor, from, to, offset) ==
    [k \in 1 .. (to - from + 1) |->
        Keypoint(PtAdd(anchor.anchor_keypoints_pts[from + k - 1], offset),
                 anchor.anchor_descriptors[from + k - 1])]

(* Keypoints from..to of an anchor, each moved by its own offset.          *)
Scattered(anchor, from, to) ==
    [k \in 1 .. (to - from + 1) |->
        Keypoint(PtAdd(anchor.anchor_keypoints_pts[from + k - 1], << 0, 50 * k >>),
                 anchor.anchor_descriptors[from + k - 1])]

(* The page of a vendor: np of the primary keypoints at offset <<5, 5>>,   *)
(* the others scattered; ns of the secondary keypoints moved by shift      *)
(* against the primary ones, the others not found.                         *)
VendorPage(template, np, ns, nshifted, shift) ==
    Placed(template.primary_anchor, 1, np, << 5, 5 >>)
      \o Scattered(template.primary_anchor, np + 1, MIN_PRIMARY_INLIERS)
      \o Placed(template.secondary_anchor, 1, ns - nshifted, << 5, 5 >>)
      \o Placed(template.secondary_anchor, ns - nshifted + 1, ns, PtAdd(<< 5, 5 >>, shift))

(***************************************************************************)
(* Inputs of a run: the persisted templates and the files of the input     *)
(* directory.                                                              *)
(***************************************************************************)
(* A template saved by an earlier run, before triage hashing existed.      *)
PersistedB == Template(LegacyKeys, NameB, hash_to_hex(Bits(8)), <<>>)

(* A template file whose vendor_name is the empty string.                  *)
PersistedUnnamed ==
    Template(LegacyKeys \cup {"triage_hash"}, NameEmpty,
             hash_to_hex(Bits(8)), hash_to_hex(Bits(11)))

FileB == sanitize_filename(NameB)
FileU == <<"a", "_", "b", ".json">>

InitialStores ==
    { EmptyStore,
      StoreWith(EmptyStore, FileB, PersistedB),
      StoreWith(EmptyStore, FileU, PersistedUnnamed),
      StoreWith(StoreWith(EmptyStore, FileB, PersistedB), FileU, PersistedUnnamed) }

PdfFile(pages) == [kind |-> "pdf", pages |-> pages]
ImageFile == [kind |-> "image", pages |-> <<>>]
OtherFile == [kind |-> "other", pages |-> <<>>]

InputFileKinds ==
    { PdfFile(<<l>>) : l \in Looks }
      \cup { PdfFile(<<Look1, Look2>>), PdfFile(<<Look3, Look1>>) }
      \cup { ImageFile, OtherFile }

InputListings == UNION { [1 .. n -> InputFileKinds] : n \in 0 .. MaxFiles }

(***************************************************************************)
(* State.                                                                  *)
(***************************************************************************)
VARIABLES
    store,              \* config/templates: file name -> template record
    TEMPLATE_CACHE,     \* main.py: TEMPLATE_CACHE
    files,              \* list(INPUT_DIR.glob('*'))
    file_loc,           \* where each input file is now
    processing_queue,   \* main: processing_queue
    unidentified_tasks, \* main: unidentified_queue / the session's queue
    pc,                 \* position of the run
    error,              \* the exception that ended the run, "" if none
    ingest_idx,         \* index of the file the ingestion loop is at
    stage2_idx,         \* index of the page the stage 2 loop is at
    seed_task,          \* start_interactive_session: seed_task
    new_template,       \* start_interactive_session: new_template
    final_vendor_name,  \* start_interactive_session: final_vendor_name
    prop_i,             \* the propagation loop's i (1-based)
    pass_queue,         \* history: the queue when the propagation pass began
    log,                \* history: the calls made so far
    probe,              \* the page handed to the matcher under SpecHash
    candidates,         \* identify_vendor_via_hashing: candidates
    match_result,       \* identify_vendor_via_hashing: the returned pair
    orb_templates,      \* identify_vendor_via_features: orb_templates
    incoming,           \* the keypoints and descriptors of the incoming page
    feat_idx,           \* the template the feature matcher's loop is at
    affine,             \* identify_vendor_via_features: affine_matrix
    feat_result,        \* identify_vendor_via_features: the returned value
    first_result,       \* history: what the first of two calls returned
    run,                \* which of the two calls is under way
    templates_dir_exists, \* whether config/templates exists
    glob_rest,          \* load_and_cache_templates: files still to visit
    prev_cache,         \* history: the cache before load_and_cache_templates
    manager_call,       \* the template_manager call under way or last made
    manager_result,     \* what that call returned
    production_template, \* handle_production_path: template
    match_transform,    \* the transform the match of that template carries
    field_idx,          \* handle_production_path: the field the loop is at
    extract_calls,      \* the calls of engine.extract_text_from_area so far
    gui,                \* the LearningInterface object and its widgets
    gui_result          \* what start_learning_gui returned

vars == << store, TEMPLATE_CACHE, files, file_loc, processing_queue,
           unidentified_tasks, pc, error, ingest_idx, stage2_idx, seed_task,
           new_template, final_vendor_name, prop_i, pass_queue, log,
           probe, candidates, match_result, orb_templates, incoming, feat_idx,
           affine, feat_result, first_result, run, templates_dir_exists,
           glob_rest, prev_cache, manager_call, manager_result,
           production_template, match_transform, field_idx, extract_calls,
           gui, gui_result >>

matcher_vars == << probe, candidates, match_result >>

feature_vars == << orb_templates, incoming, feat_idx, affine, feat_result,
                   first_result, run >>

warm_vars == << glob_rest, prev_cache >>

manager_vars == << manager_call, manager_result >>

production_vars == << production_template, match_transform, field_idx, extract_calls >>

gui_vars == << gui, gui_result >>

component_vars == << manager_vars, production_vars, gui_vars >>

(* The feature matcher and the stepwise warm-up at rest.                   *)
FeatureIdle ==
    /\ orb_templates = <<>>
    /\ incoming = <<>>
    /\ feat_idx = 0
    /\ affine = NoTransform
    /\ feat_result = NoFeatureMatch
    /\ first_result = NoFeatureMatch
    /\ run = 1

WarmIdle == glob_rest = <<>> /\ prev_cache = <<>>

(* The template manager, handle_production_path and the authoring GUI on   *)
(* their own are at rest in the same way.                                  *)
NoCall == [op |-> "none", vendor_id |-> <<>>, template_data |-> NoTemplate,
           before |-> NoTemplate, existed |-> FALSE]

NoResult == [found |-> FALSE, data |-> NoTemplate, raised |-> "", exists |-> FALSE,
             saved |-> FALSE]

ManagerIdle == manager_call = NoCall /\ manager_result = NoResult

ProductionIdle ==
    /\ production_template = NoTemplate
    /\ match_transform = NoTransform
    /\ field_idx = 0
    /\ extract_calls = <<>>

(* An anchor that is None, and the value None of final_template.           *)
NoAnchor == [is_none |-> TRUE, bounding_box |-> [x |-> 0, y |-> 0, width |-> 0, height |-> 0],
             descriptors |-> <<>>, keypoints_pts |-> <<>>]

NoFinalTemplate ==
    [is_none |-> TRUE, vendor_name |-> <<>>, primary_anchor |-> NoAnchor,
     secondary_anchor |-> NoAnchor, fields |-> <<>>]

NoGui ==
    [open |-> FALSE, global_keypoints |-> <<>>, vendor_name |-> <<>>,
     primary_anchor |-> NoAnchor, secondary_anchor |-> NoAnchor,
     defined_areas |-> <<>>, current_step |-> "**PRIMARY ANCHOR**",
     listbox_enabled |-> FALSE, curselection |-> "", save_button_enabled |-> FALSE,
     final_template |-> NoFinalTemplate]

GuiIdle == gui = NoGui /\ gui_result = NoFinalTemplate

ComponentsIdle == ManagerIdle /\ ProductionIdle /\ GuiIdle

NoTask == [doc |-> 0, original_path |-> 0, processed_image_obj |-> PathObject]

(* hit: whether the call returned a template; for save_template, whether   *)
(* the record reached its file.                                            *)
Event(op, doc, vendor, hit) == [op |-> op, doc |-> doc, vendor |-> vendor, hit |-> hit]

Init ==
    /\ store \in InitialStores
    /\ TEMPLATE_CACHE = <<>>
    /\ files \in InputListings
    /\ file_loc = [f \in 1 .. Len(files) |-> "input"]
    /\ processing_queue = <<>>
    /\ unidentified_tasks = <<>>
    /\ pc = "start"
    /\ error = ""
    /\ ingest_idx = 1
    /\ stage2_idx = 1
    /\ seed_task = NoTask
    /\ new_template = NoTemplate
    /\ final_vendor_name = <<>>
    /\ prop_i = 0
    /\ pass_queue = <<>>
    /\ log = <<>>
    /\ probe = PathObject
    /\ candidates = <<>>
    /\ match_result = NoMatch
    /\ FeatureIdle
    /\ templates_dir_exists = TRUE
    /\ WarmIdle
    /\ ComponentsIdle

(***************************************************************************)
(* handle_production_path: one extraction event and the rename of the      *)
(* archived source file.  template['fields'] raises KeyError on a record   *)
(* without fields; everything after it is guarded by the code.             *)
(***************************************************************************)
ProductionRaises(template) == ~Has(template, "fields")

LogAfterProduction(lg, template, task, via) ==
    Append(lg, Event(via, task.doc, template.vendor_name, TRUE))

LocAfterProduction(loc, task) ==
    IF loc[task.original_path] = "archive"
    THEN [loc EXCEPT ![task.original_path] = "archive_renamed"]
    ELSE loc

Crash(exc) == pc' = "crashed" /\ error' = exc

(***************************************************************************)
(* main: set-up and stage 1.                                               *)
(***************************************************************************)
LoadAndCacheTemplates ==
    /\ pc = "start"
    /\ IF ~templates_dir_exists
       THEN /\ TEMPLATE_CACHE' = ResetCache(TEMPLATE_CACHE)
            /\ pc' = IF files = <<>> THEN "done" ELSE "ingest"
            /\ UNCHANGED error
       ELSE \E order \in GlobOrders(store) :
              LET w == WarmCache(ResetCache(TEMPLATE_CACHE), store, order)
              IN  /\ TEMPLATE_CACHE' = w.cache
                  /\ IF w.error # "" THEN Crash(w.error)
                     ELSE /\ pc' = IF files = <<>> THEN "done" ELSE "ingest"
                          /\ UNCHANGED error
    /\ UNCHANGED << store, files, file_loc, processing_queue, unidentified_tasks,
                    ingest_idx, stage2_idx, seed_task, new_template,
                    final_vendor_name, prop_i, pass_queue, log, matcher_vars,
                    feature_vars, templates_dir_exists, warm_vars,
                    component_vars >>

(* process_document returns output_image_path, the Path of the PNG.        *)
process_document(f) == PathObject

PagesOf(f, path, first_doc) ==
    IF f.kind = "pdf"
    THEN [k \in 1 .. Len(f.pages) |->
            [doc |-> first_doc + k, original_path |-> path,
             processed_image_obj |-> f.pages[k]]]
    ELSE IF f.kind = "image"
    THEN << [doc |-> first_doc + 1, original_path |-> path,
             processed_image_obj |-> process_document(f)] >>
    ELSE <<>>

IngestFile ==
    /\ pc = "ingest"
    /\ ingest_idx <= Len(files)
    /\ processing_queue' =
          processing_queue \o PagesOf(files[ingest_idx], ingest_idx, Len(processing_queue))
    /\ file_loc' = [file_loc EXCEPT ![ingest_idx] = "archive"]
    /\ ingest_idx' = ingest_idx + 1
    /\ pc' = IF ingest_idx = Len(files) THEN "stage2" ELSE "ingest"
    /\ UNCHANGED << store, TEMPLATE_CACHE, files, unidentified_tasks, error,
                    stage2_idx, seed_task, new_template, final_vendor_name,
                    prop_i, pass_queue, log, matcher_vars,
                    feature_vars, templates_dir_exists, warm_vars,
                    component_vars >>

(***************************************************************************)
(* main: stage 2.                                                          *)
(***************************************************************************)
(* main.py line 292: if vendor_name and template_data                      *)
Stage2Match(r) == r.outcome = "match" /\ r.vendor_name # <<>>

Stage2Page ==
    /\ pc = "stage2"
    /\ stage2_idx <= Len(processing_queue)
    /\ LET page == processing_queue[stage2_idx]
           r == identify_vendor_via_hashing(TEMPLATE_CACHE, page.processed_image_obj)
           lg == Append(log, Event("identify_hashing", page.doc, r.vendor_name,
                                   r.outcome = "match"))
       IN  IF r.outcome \notin {"match", "none"}
           THEN /\ Crash(r.outcome)
                /\ log' = lg
                /\ UNCHANGED << file_loc, unidentified_tasks, stage2_idx >>
           ELSE IF Stage2Match(r)
           THEN IF ProductionRaises(r.template)
                THEN /\ Crash("KeyError")
                     /\ log' = lg
                     /\ UNCHANGED << file_loc, unidentified_tasks, stage2_idx >>
                ELSE /\ log' = LogAfterProduction(lg, r.template, page, "extract_stage2")
                     /\ file_loc' = LocAfterProduction(file_loc, page)
                     /\ stage2_idx' = stage2_idx + 1
                     /\ UNCHANGED << unidentified_tasks, pc, error >>
           ELSE /\ unidentified_tasks' = Append(unidentified_tasks, page)
                /\ log' = Append(lg, Event("queued", page.doc, <<>>, FALSE))
                /\ stage2_idx' = stage2_idx + 1
                /\ UNCHANGED << file_loc, pc, error >>
    /\ UNCHANGED << store, TEMPLATE_CACHE, files, processing_queue, ingest_idx,
                    seed_task, new_template, final_vendor_name, prop_i,
                    pass_queue, matcher_vars,
                    feature_vars, templates_dir_exists, warm_vars,
                    component_vars >>

Stage2Done ==
    /\ pc = "stage2"
    /\ stage2_idx > Len(processing_queue)
    /\ pc' = IF unidentified_tasks # <<>> THEN "session_loop" ELSE "done"
    /\ UNCHANGED << store, TEMPLATE_CACHE, files, file_loc, processing_queue,
                    unidentified_tasks, error, ingest_idx, stage2_idx, seed_task,
                    new_template, final_vendor_name, prop_i, pass_queue, log,
                    matcher_vars,
                    feature_vars, templates_dir_exists, warm_vars,
                    component_vars >>

(***************************************************************************)
(* start_interactive_session.                                              *)
(***************************************************************************)
(* Variant: pop() without the index takes the newest item.                 *)
PopLast(q) == [item |-> q[Len(q)], rest |-> SubSeq(q, 1, Len(q) - 1)]

(* unidentified_tasks.pop(0): the item popped and what is left.            *)
PopFirst(q) == [item |-> Head(q), rest |-> Tail(q)]

(* unidentified_tasks.pop(i)                                               *)
PopAt(q, i) == SubSeq(q, 1, i - 1) \o SubSeq(q, i + 1, Len(q))

(* Variant: the test of line 212 without the comparison of vendor names.   *)
PropagationMatch_AnyVendor(r, vendor) == r.outcome = "match"

(* main.py line 212                                                        *)
PropagationMatch(r, vendor) ==
    r.outcome = "match" /\ r.template.vendor_name = vendor

(* Variant: the loop starts one document short of the end of the queue.    *)
FirstIndex_SkipsLast(q) == Len(q) - 1

(* range(unidentified_count - 1, -1, -1), 1-based                          *)
FirstIndex(q) == Len(q)

NextIndex(i) == i - 1

session_frame == << files, processing_queue, ingest_idx, stage2_idx, matcher_vars,
                   feature_vars, warm_vars,
                    component_vars >>

(* while unidentified_tasks: pop the seed and save its image for the GUI.  *)
(* A Path has no save(): AttributeError.                                   *)
PopSeed ==
    /\ pc = "session_loop"
    /\ unidentified_tasks # <<>>
    /\ seed_task' = PopFirst(unidentified_tasks).item
    /\ unidentified_tasks' = PopFirst(unidentified_tasks).rest
    /\ log' = Append(log, Event("seed", seed_task'.doc, <<>>, FALSE))
    /\ IF seed_task'.processed_image_obj.kind # "PIL"
       THEN Crash("AttributeError")
       ELSE pc' = "authoring" /\ error' = error
    /\ UNCHANGED << store, TEMPLATE_CACHE, file_loc, new_template,
                    final_vendor_name, prop_i, pass_queue, session_frame, templates_dir_exists >>

SessionReturn ==
    /\ pc = "session_loop"
    /\ unidentified_tasks = <<>>
    /\ pc' = "done"
    /\ UNCHANGED << store, TEMPLATE_CACHE, file_loc, unidentified_tasks, error,
                    seed_task, new_template, final_vendor_name, prop_i,
                    pass_queue, log, session_frame, templates_dir_exists >>

(***************************************************************************)
(* The authoring call of line 184.  The records a collaborator can hand    *)
(* back: what _on_save_press builds (two anchors, no identifier hash), and *)
(* a hash template whose identifier hash is the phash of the seed's crop   *)
(* (or does not parse as hex).                                             *)
(***************************************************************************)
AuthorNames == {NameA, NameB}

AuthoredTemplates(seed_image) ==
    { Template(GuiKeys, n, <<>>, <<>>) : n \in AuthorNames }
      \cup { Template(LegacyKeys, n, hash_to_hex(phash_of_crop(seed_image, AreaLogo)), <<>>) :
               n \in AuthorNames }
      \cup { Template(LegacyKeys, NameA, BadHex, <<>>) }

(* start_learning_gui requires existing_vendors, which line 184 does not   *)
(* pass: with the GUI of learning_interface.py the call is a TypeError.    *)
AuthoringRaises ==
    /\ pc = "authoring"
    /\ Crash("TypeError")
    /\ log' = Append(log, Event("authoring_raised", seed_task.doc, <<>>, FALSE))
    /\ UNCHANGED << store, TEMPLATE_CACHE, file_loc, unidentified_tasks, seed_task,
                    new_template, final_vendor_name, prop_i, pass_queue,
                    session_frame, templates_dir_exists >>

AuthoringCancelled ==
    /\ pc = "authoring"
    /\ pc' = "cancelled"
    /\ new_template' = NoTemplate
    /\ log' = Append(log, Event("authoring_none", seed_task.doc, <<>>, FALSE))
    /\ UNCHANGED << store, TEMPLATE_CACHE, file_loc, unidentified_tasks, error,
                    seed_task, final_vendor_name, prop_i, pass_queue,
                    session_frame, templates_dir_exists >>

AuthoringConfirmed ==
    /\ pc = "authoring"
    /\ \E t \in AuthoredTemplates(seed_task.processed_image_obj) :
          /\ new_template' = t
          /\ final_vendor_name' = t.vendor_name
          /\ log' = Append(log, Event("authoring_template", seed_task.doc, t.vendor_name, TRUE))
    /\ pc' = "confirmed"
    /\ UNCHANGED << store, TEMPLATE_CACHE, file_loc, unidentified_tasks, error,
                    seed_task, prop_i, pass_queue, session_frame, templates_dir_exists >>

(* Variant: the triage hash is taken from the identifier crop.             *)
WithTriageHash_OfCrop(t, seed_image) ==
    [t EXCEPT !.keys = @ \cup {"triage_hash"},
              !.triage_hash = hash_to_hex(phash_of_crop(seed_image, AreaLogo))]

(* lines 188-193: the triage hash is added, then the record is saved.      *)
WithTriageHash(t, seed_image) ==
    [t EXCEPT !.keys = @ \cup {"triage_hash"},
              !.triage_hash = hash_to_hex(average_hash(seed_image))]

SaveNewTemplate ==
    /\ pc = "confirmed"
    /\ new_template' = WithTriageHash(new_template, seed_task.processed_image_obj)
    /\ \E io_ok \in BOOLEAN :
          /\ store' = save_template(store, final_vendor_name, new_template', io_ok)
          /\ templates_dir_exists' = (templates_dir_exists \/ io_ok)
          /\ log' = Append(log, Event("save_template", seed_task.doc,
                                      final_vendor_name, io_ok))
    /\ pc' = "cache_append"
    /\ UNCHANGED << TEMPLATE_CACHE, file_loc, unidentified_tasks, error, seed_task,
                    final_vendor_name, prop_i, pass_queue, session_frame >>

(* Variant: the new entry is put in front of the others.                   *)
AppendEntry_InFront(c, cached_item) == <<cached_item>> \o c

(* line 202: TEMPLATE_CACHE.append(cached_item)                            *)
AppendEntry(c, cached_item) == Append(c, cached_item)

(* lines 194-205: new_template["identifier_hash"] is a KeyError, which the *)
(* except clause (ValueError, TypeError) does not catch.                   *)
AppendToCache ==
    /\ pc = "cache_append"
    /\ IF ~Has(new_template, "identifier_hash")
       THEN /\ Crash("KeyError")
            /\ UNCHANGED << TEMPLATE_CACHE, log >>
       ELSE IF ~HexValid(new_template.identifier_hash)
                 \/ ~HexValid(new_template.triage_hash)
       THEN /\ pc' = "seed_production"
            /\ UNCHANGED << TEMPLATE_CACHE, log, error >>
       ELSE /\ TEMPLATE_CACHE' = AppendEntry(TEMPLATE_CACHE, CachedItem(new_template, TRUE))
            /\ log' = Append(log, Event("cache_append", seed_task.doc, final_vendor_name, TRUE))
            /\ pc' = "seed_production"
            /\ error' = error
    /\ UNCHANGED << store, file_loc, unidentified_tasks, seed_task, new_template,
                    final_vendor_name, prop_i, pass_queue, session_frame, templates_dir_exists >>

(* line 206, then the set-up of the propagation loop.                      *)
SeedProduction ==
    /\ pc = "seed_production"
    /\ IF ProductionRaises(new_template)
       THEN /\ Crash("KeyError")
            /\ UNCHANGED << file_loc, log, prop_i, pass_queue >>
       ELSE /\ log' = LogAfterProduction(log, new_template, seed_task, "extract_seed")
            /\ file_loc' = LocAfterProduction(file_loc, seed_task)
            /\ prop_i' = FirstIndex(unidentified_tasks)
            /\ pass_queue' = unidentified_tasks
            /\ pc' = "propagate"
            /\ error' = error
    /\ UNCHANGED << store, TEMPLATE_CACHE, unidentified_tasks, seed_task,
                    new_template, final_vendor_name, session_frame, templates_dir_exists >>

(* One iteration of the loop of lines 209-216.                             *)
PropagateStep ==
    /\ pc = "propagate"
    /\ prop_i >= 1
    /\ LET task_to_check == unidentified_tasks[prop_i]
           r == identify_vendor_via_hashing(TEMPLATE_CACHE,
                                            task_to_check.processed_image_obj)
           lg == Append(log, Event("identify_hashing", task_to_check.doc,
                                   r.vendor_name, r.outcome = "match"))
       IN  IF r.outcome \notin {"match", "none"}
           THEN /\ Crash(r.outcome)
                /\ log' = lg
                /\ UNCHANGED << file_loc, unidentified_tasks, prop_i >>
           ELSE IF PropagationMatch(r, final_vendor_name)
           THEN IF ProductionRaises(r.template)
                THEN /\ Crash("KeyError")
                     /\ log' = lg
                     /\ UNCHANGED << file_loc, unidentified_tasks, prop_i >>
                ELSE /\ log' = LogAfterProduction(lg, r.template, task_to_check,
                                                  "extract_propagated")
                     /\ file_loc' = LocAfterProduction(file_loc, task_to_check)
                     /\ unidentified_tasks' = PopAt(unidentified_tasks, prop_i)
                     /\ prop_i' = NextIndex(prop_i)
                     /\ UNCHANGED << pc, error >>
           ELSE /\ log' = lg
                /\ prop_i' = NextIndex(prop_i)
                /\ UNCHANGED << file_loc, unidentified_tasks, pc, error >>
    /\ UNCHANGED << store, TEMPLATE_CACHE, seed_task, new_template,
                    final_vendor_name, pass_queue, session_frame, templates_dir_exists >>

PropagateDone ==
    /\ pc = "propagate"
    /\ prop_i < 1
    /\ pc' = "session_loop"
    /\ UNCHANGED << store, TEMPLATE_CACHE, file_loc, unidentified_tasks, error,
                    seed_task, new_template, final_vendor_name, prop_i,
                    pass_queue, log, session_frame, templates_dir_exists >>

(* Variant: a cancelled seed is put back at the end of the queue.          *)
CancelArchive_Requeues ==
    /\ pc = "cancelled"
    /\ unidentified_tasks' = Append(unidentified_tasks, seed_task)
    /\ IF file_loc[seed_task.original_path] = "input"
       THEN /\ file_loc' = [file_loc EXCEPT ![seed_task.original_path] = "archive_unprocessed"]
            /\ log' = Append(log, Event("archive_unprocessed", seed_task.doc, <<>>, FALSE))
            /\ pc' = "session_loop"
            /\ error' = error
       ELSE /\ Crash("FileNotFoundError")
            /\ UNCHANGED << file_loc, log >>
    /\ UNCHANGED << store, TEMPLATE_CACHE, seed_task, new_template,
                    final_vendor_name, prop_i, pass_queue, session_frame, templates_dir_exists >>

(* lines 219-222: shutil.move(seed_task['original_path'], ...) of a file   *)
(* that is no longer in the input directory raises FileNotFoundError.      *)
CancelArchive ==
    /\ pc = "cancelled"
    /\ IF file_loc[seed_task.original_path] = "input"
       THEN /\ file_loc' = [file_loc EXCEPT ![seed_task.original_path] = "archive_unprocessed"]
            /\ log' = Append(log, Event("archive_unprocessed", seed_task.doc, <<>>, FALSE))
            /\ pc' = "session_loop"
            /\ error' = error
       ELSE /\ Crash("FileNotFoundError")
            /\ UNCHANGED << file_loc, log >>
    /\ UNCHANGED << store, TEMPLATE_CACHE, unidentified_tasks, seed_task,
                    new_template, final_vendor_name, prop_i, pass_queue,
                    session_frame, templates_dir_exists >>

Next ==
    \/ LoadAndCacheTemplates
    \/ IngestFile
    \/ Stage2Page
    \/ Stage2Done
    \/ PopSeed
    \/ SessionReturn
    \/ AuthoringRaises
    \/ AuthoringCancelled
    \/ AuthoringConfirmed
    \/ SaveNewTemplate
    \/ AppendToCache
    \/ SeedProduction
    \/ PropagateStep
    \/ PropagateDone
    \/ CancelArchive

Spec == Init /\ [][Next]_vars

(***************************************************************************)
(* The hash matcher on its own: identify_vendor_via_hashing applied to a   *)
(* cache and a page drawn from bounded sets, tier by tier.                 *)
(***************************************************************************)
HashTemplate(name, idBits, triageBits) ==
    Template(LegacyKeys \cup {"triage_hash"}, name,
             hash_to_hex(Bits(idBits)), hash_to_hex(Bits(triageBits)))

(* A template whose identifier box reaches over the edge of the page.      *)
OverEdgeTemplate == [HashTemplate(NameB, 2, 5) EXCEPT !.identifier_area = AreaOverEdge]

MatcherTemplates ==
    { HashTemplate(NameA, 0, 0), HashTemplate(NameB, 2, 5), HashTemplate(NameA, 1, 6),
      PersistedB, PersistedUnnamed, OverEdgeTemplate }

MatcherEntries ==
    { CachedItem(t, Has(t, "triage_hash") /\ t.triage_hash # <<>>) : t \in MatcherTemplates }

MatcherCaches == UNION { [1 .. n -> MatcherEntries] : n \in 0 .. MaxCache }

MatcherProbes == Looks \cup { PilImage(6, 1), PathObject }

InitMatcher ==
    /\ store = EmptyStore
    /\ TEMPLATE_CACHE \in MatcherCaches
    /\ files = <<>>
    /\ file_loc = <<>>
    /\ processing_queue = <<>>
    /\ unidentified_tasks = <<>>
    /\ pc = "matcher"
    /\ error = ""
    /\ ingest_idx = 1
    /\ stage2_idx = 1
    /\ seed_task = NoTask
    /\ new_template = NoTemplate
    /\ final_vendor_name = <<>>
    /\ prop_i = 0
    /\ pass_queue = <<>>
    /\ log = <<>>
    /\ probe \in MatcherProbes
    /\ candidates = <<>>
    /\ match_result = NoMatch
    /\ FeatureIdle
    /\ templates_dir_exists = TRUE
    /\ WarmIdle
    /\ ComponentsIdle

matcher_frame == << store, TEMPLATE_CACHE, files, file_loc, processing_queue,
                    unidentified_tasks, error, ingest_idx, stage2_idx, seed_task,
                    new_template, final_vendor_name, prop_i, pass_queue, log, probe,
                    feature_vars, templates_dir_exists, warm_vars,
                    component_vars >>

(* lines 79-92: the early returns and the triage tier.                     *)
HashTriage ==
    /\ pc = "matcher"
    /\ IF TEMPLATE_CACHE = <<>>
       THEN /\ match_result' = NoMatch
            /\ pc' = "returned"
            /\ UNCHANGED candidates
       ELSE IF probe.kind # "PIL"
       THEN /\ match_result' = Raised("AttributeError")
            /\ pc' = "returned"
            /\ UNCHANGED candidates
       ELSE /\ candidates' = TriageCandidates(TEMPLATE_CACHE, probe)
            /\ match_result' = NoMatch
            /\ pc' = IF candidates' = <<>> THEN "returned" ELSE "triaged"
    /\ UNCHANGED matcher_frame

(* lines 93-110: the precise tier.                                         *)
HashPrecise ==
    /\ pc = "triaged"
    /\ match_result' = PreciseLoop(candidates, 1, probe)
    /\ pc' = "returned"
    /\ UNCHANGED << candidates, matcher_frame >>

NextMatcher == HashTriage \/ HashPrecise

SpecHash == InitMatcher /\ [][NextMatcher]_vars

(***************************************************************************)
(* The feature matcher on its own: identify_vendor_via_features applied    *)
(* twice to a page and a template list drawn from bounded sets, template   *)
(* by template and anchor by anchor.                                       *)
(***************************************************************************)
OrbA == OrbTemplate(NameA, 0)
OrbB == OrbTemplate(NameB, 40)

OrbTemplateLists == UNION { [1 .. n -> {OrbA, OrbB}] : n \in 0 .. MaxCache }

(* The whole page of a vendor, and the ways its anchors can fail to show.  *)
GoodPage(t) == VendorPage(t, MIN_PRIMARY_INLIERS, MIN_SECONDARY_INLIERS_CONSISTENT, 0, << 0, 0 >>)

ShiftedPage(t, shift) ==
    VendorPage(t, MIN_PRIMARY_INLIERS, MIN_SECONDARY_INLIERS_CONSISTENT,
               MIN_SECONDARY_INLIERS_CONSISTENT, shift)

FeaturePages ==
    { <<>>,
      GoodPage(OrbA),
      GoodPage(OrbB),
      ShiftedPage(OrbA, << 6, 4 >>),
      ShiftedPage(OrbA, << 6, 5 >>),
      VendorPage(OrbA, MIN_PRIMARY_INLIERS, MIN_SECONDARY_INLIERS_CONSISTENT, 1, << 6, 5 >>),
      VendorPage(OrbA, MIN_PRIMARY_INLIERS, MIN_SECONDARY_INLIERS_CONSISTENT - 1, 0, << 0, 0 >>),
      VendorPage(OrbA, MIN_PRIMARY_INLIERS - 1, MIN_SECONDARY_INLIERS_CONSISTENT, 0, << 0, 0 >>),
      VendorPage(OrbA, 1, MIN_SECONDARY_INLIERS_CONSISTENT, 0, << 0, 0 >>),
      GoodPage(OrbA) \o GoodPage(OrbB),
      ShiftedPage(OrbA, << 6, 5 >>) \o GoodPage(OrbB),
      VendorPage(OrbA, MIN_PRIMARY_INLIERS - 1, MIN_SECONDARY_INLIERS_CONSISTENT, 0, << 0, 0 >>)
        \o GoodPage(OrbB) }

InitFeatures ==
    /\ store = EmptyStore
    /\ TEMPLATE_CACHE = <<>>
    /\ files = <<>>
    /\ file_loc = <<>>
    /\ processing_queue = <<>>
    /\ unidentified_tasks = <<>>
    /\ pc = "feat_start"
    /\ error = ""
    /\ ingest_idx = 1
    /\ stage2_idx = 1
    /\ seed_task = NoTask
    /\ new_template = NoTemplate
    /\ final_vendor_name = <<>>
    /\ prop_i = 0
    /\ pass_queue = <<>>
    /\ log = <<>>
    /\ probe = PathObject
    /\ candidates = <<>>
    /\ match_result = NoMatch
    /\ orb_templates \in OrbTemplateLists
    /\ incoming \in FeaturePages
    /\ feat_idx = 0
    /\ affine = NoTransform
    /\ feat_result = NoFeatureMatch
    /\ first_result = NoFeatureMatch
    /\ run = 1
    /\ templates_dir_exists = TRUE
    /\ WarmIdle
    /\ ComponentsIdle

feature_frame == << store, TEMPLATE_CACHE, files, file_loc, processing_queue,
                    unidentified_tasks, error, ingest_idx, stage2_idx, seed_task,
                    new_template, final_vendor_name, prop_i, pass_queue, log,
                    matcher_vars, orb_templates, incoming, templates_dir_exists,
                    warm_vars,
                    component_vars >>

(* Variant: the loop goes on from where the call before it stopped.        *)
FirstTemplate_Resumes == feat_idx + 1

(* for template in orb_templates: every call starts at the first one.      *)
FirstTemplate == 1

(* lines 29-42: the early returns, then the loop is entered.               *)
FeatBegin ==
    /\ pc = "feat_start"
    /\ IF orb_templates = <<>> \/ incoming = <<>>
       THEN /\ feat_result' = NoFeatureMatch
            /\ pc' = "feat_returned"
            /\ UNCHANGED feat_idx
       ELSE /\ feat_idx' = FirstTemplate
            /\ pc' = "feat_primary"
            /\ UNCHANGED feat_result
    /\ UNCHANGED << affine, first_result, run, feature_frame >>

(* lines 44-74: the primary anchor of the template the loop is at.         *)
FeatPrimary ==
    /\ pc = "feat_primary"
    /\ feat_idx <= Len(orb_templates)
    /\ IF PrimaryLock(orb_templates[feat_idx], incoming)
       THEN /\ affine' = PrimaryTransform(orb_templates[feat_idx], incoming)
            /\ pc' = "feat_secondary"
            /\ UNCHANGED feat_idx
       ELSE /\ feat_idx' = AfterReject(feat_idx, Len(orb_templates))
            /\ UNCHANGED << affine, pc >>
    /\ UNCHANGED << feat_result, first_result, run, feature_frame >>

(* lines 76-123: the secondary anchor under the primary transform.         *)
FeatSecondary ==
    /\ pc = "feat_secondary"
    /\ IF SecondaryConfirmed(orb_templates[feat_idx], incoming, affine)
       THEN /\ feat_result' = FeatureMatch(orb_templates[feat_idx])
            /\ pc' = "feat_returned"
            /\ UNCHANGED feat_idx
       ELSE /\ feat_idx' = AfterReject(feat_idx, Len(orb_templates))
            /\ pc' = "feat_primary"
            /\ UNCHANGED feat_result
    /\ UNCHANGED << affine, first_result, run, feature_frame >>

(* lines 125-126: no template was confirmed.                               *)
FeatExhausted ==
    /\ pc = "feat_primary"
    /\ feat_idx > Len(orb_templates)
    /\ feat_result' = NoFeatureMatch
    /\ pc' = "feat_returned"
    /\ UNCHANGED << feat_idx, affine, first_result, run, feature_frame >>

(* The matcher is called again with the same page and template list.       *)
FeatCallAgain ==
    /\ pc = "feat_returned"
    /\ run = 1
    /\ first_result' = feat_result
    /\ run' = 2
    /\ pc' = "feat_start"
    /\ UNCHANGED << feat_idx, affine, feat_result, feature_frame >>

NextFeatures ==
    \/ FeatBegin
    \/ FeatPrimary
    \/ FeatSecondary
    \/ FeatExhausted
    \/ FeatCallAgain

SpecFeatures == InitFeatures /\ [][NextFeatures]_vars

(***************************************************************************)
(* The cache warm-up on its own: load_and_cache_templates applied to a     *)
(* template directory and a previous cache drawn from bounded sets, file   *)
(* by file.                                                                *)
(***************************************************************************)
FileA == sanitize_filename(NameA)

(* What _on_save_press built and main saved: two anchors, a triage hash,   *)
(* no identifier hash.                                                     *)
PersistedGui == WithTriageHash(Template(GuiKeys, NameA, <<>>, <<>>), Look1)

(* What the file of vendor A can hold.                                     *)
FileAContents ==
    { HashTemplate(NameA, 0, 0),
      PersistedGui,
      Template(LegacyKeys, NameA, BadHex, <<>>),
      Template(LegacyKeys \cup {"triage_hash"}, NameA, hash_to_hex(Bits(0)), BadHex),
      Template(LegacyKeys \ {"identifier_area"}, NameA, hash_to_hex(Bits(0)), <<>>),
      FileContent("unreadable"),
      FileContent("bad_json"),
      FileContent("bad_utf8"),
      FileContent("number"),
      FileContent("list") }

WarmStoresOver(base) ==
    { base } \cup { StoreWith(base, FileA, c) : c \in FileAContents }

WarmStores == UNION { WarmStoresOver(base) : base \in InitialStores }

PreviousEntries == { CachedItem(HashTemplate(NameB, 2, 5), TRUE), CachedItem(PersistedB, FALSE) }

PreviousCaches == UNION { [1 .. n -> PreviousEntries] : n \in 0 .. MaxCache }

InitCache ==
    /\ templates_dir_exists \in BOOLEAN
    /\ store \in WarmStores
    /\ ~templates_dir_exists => store = EmptyStore
    /\ TEMPLATE_CACHE \in PreviousCaches
    /\ prev_cache = TEMPLATE_CACHE
    /\ glob_rest = <<>>
    /\ files = <<>>
    /\ file_loc = <<>>
    /\ processing_queue = <<>>
    /\ unidentified_tasks = <<>>
    /\ pc = "warm_start"
    /\ error = ""
    /\ ingest_idx = 1
    /\ stage2_idx = 1
    /\ seed_task = NoTask
    /\ new_template = NoTemplate
    /\ final_vendor_name = <<>>
    /\ prop_i = 0
    /\ pass_queue = <<>>
    /\ log = <<>>
    /\ probe = PathObject
    /\ candidates = <<>>
    /\ match_result = NoMatch
    /\ FeatureIdle
    /\ ComponentsIdle

warm_frame == << store, files, file_loc, processing_queue, unidentified_tasks,
                 ingest_idx, stage2_idx, seed_task, new_template, final_vendor_name,
                 prop_i, pass_queue, log, matcher_vars, feature_vars,
                 templates_dir_exists, prev_cache, component_vars >>

(* lines 48-56: the cache is emptied; without the directory that is all.   *)
WarmBegin ==
    /\ pc = "warm_start"
    /\ TEMPLATE_CACHE' = ResetCache(TEMPLATE_CACHE)
    /\ IF ~templates_dir_exists
       THEN /\ pc' = "warm_done"
            /\ UNCHANGED glob_rest
       ELSE /\ glob_rest' \in GlobOrders(store)
            /\ pc' = "warm_loop"
    /\ UNCHANGED << error, warm_frame >>

(* lines 56-75: one template file.                                         *)
WarmFile ==
    /\ pc = "warm_loop"
    /\ glob_rest # <<>>
    /\ IF FileRaises(store, Head(glob_rest)) # ""
       THEN /\ Crash(FileRaises(store, Head(glob_rest)))
            /\ UNCHANGED << TEMPLATE_CACHE, glob_rest >>
       ELSE /\ TEMPLATE_CACHE' = CacheAfterFile(TEMPLATE_CACHE, store, Head(glob_rest))
            /\ glob_rest' = Tail(glob_rest)
            /\ UNCHANGED << pc, error >>
    /\ UNCHANGED warm_frame

(* line 76: the function returns.                                          *)
WarmEnd ==
    /\ pc = "warm_loop"
    /\ glob_rest = <<>>
    /\ pc' = "warm_done"
    /\ UNCHANGED << TEMPLATE_CACHE, glob_rest, error, warm_frame >>

NextCache == WarmBegin \/ WarmFile \/ WarmEnd

SpecCache == InitCache /\ [][NextCache]_vars

(***************************************************************************)
(* The template manager on its own: save_template step by step, with an    *)
(* OSError or the end of the process possible at every step,               *)
(* load_template, check_template_exists and the warm-up of a later run, on *)
(* vendor ids and records drawn from bounded sets.                         *)
(***************************************************************************)
NameAB == <<"A", " ", "B">>

(* The empty id; "A B" with another case, with surrounding whitespace,     *)
(* with punctuation, with another run of joining characters; and an id     *)
(* whose whitespace follows punctuation.                                   *)
ManagerIds ==
    { NameEmpty, NameAB, <<"a", " ", "b">>, <<" ", "A", " ", "B">>,
      <<"A", " ", "B", ".">>, <<"A", "-", "_", "B">>, <<".", " ", "A", " ", "B">> }

(* The last one is not a dict.                                             *)
ManagerRecords == { HashTemplate(NameAB, 0, 0), PersistedGui, FileContent("list") }

ManagerStores ==
    { EmptyStore } \cup
      { StoreWith(EmptyStore, sanitize_filename(NameAB), c) :
          c \in { HashTemplate(NameAB, 2, 5), FileContent("unreadable"),
                  FileContent("bad_json"), FileContent("bad_utf8") } }

InitStore ==
    /\ templates_dir_exists \in BOOLEAN
    /\ store \in ManagerStores
    /\ ~templates_dir_exists => store = EmptyStore
    /\ TEMPLATE_CACHE = <<>>
    /\ files = <<>>
    /\ file_loc = <<>>
    /\ processing_queue = <<>>
    /\ unidentified_tasks = <<>>
    /\ pc = "manager_idle"
    /\ error = ""
    /\ ingest_idx = 1
    /\ stage2_idx = 1
    /\ seed_task = NoTask
    /\ new_template = NoTemplate
    /\ final_vendor_name = <<>>
    /\ prop_i = 0
    /\ pass_queue = <<>>
    /\ log = <<>>
    /\ probe = PathObject
    /\ candidates = <<>>
    /\ match_result = NoMatch
    /\ FeatureIdle
    /\ WarmIdle
    /\ ManagerIdle
    /\ ProductionIdle
    /\ GuiIdle

manager_frame == << files, file_loc, processing_queue, unidentified_tasks,
                    ingest_idx, stage2_idx, seed_task, new_template,
                    final_vendor_name, prop_i, pass_queue, log, matcher_vars,
                    feature_vars, warm_vars, production_vars, gui_vars >>

SaveFinalPath == sanitize_filename(manager_call.vendor_id)

SaveTempPath == TempPath(SaveFinalPath)

(* line 36: the OSError is logged and save_template returns.               *)
SaveAbandoned ==
    /\ pc' = "manager_idle"
    /\ manager_result' = [NoResult EXCEPT !.saved = FALSE]

(* lines 18-21: the call and its argument check.                           *)
SaveCall ==
    /\ pc = "manager_idle"
    /\ \E v \in ManagerIds, t \in ManagerRecords :
          /\ manager_call' =
                [op |-> "save", vendor_id |-> v, template_data |-> t,
                 existed |-> sanitize_filename(v) \in DOMAIN store,
                 before |-> IF sanitize_filename(v) \in DOMAIN store
                            THEN store[sanitize_filename(v)] ELSE NoTemplate]
          /\ pc' = IF v = <<>> \/ t.form # "dict" THEN "manager_idle" ELSE "save_mkdir"
    /\ manager_result' = NoResult
    /\ UNCHANGED << store, TEMPLATE_CACHE, error, templates_dir_exists, manager_frame >>

(* line 24: TEMPLATES_DIR.mkdir(parents=True, exist_ok=True)               *)
SaveMkdir ==
    /\ pc = "save_mkdir"
    /\ \E io_ok \in BOOLEAN :
          IF io_ok
          THEN /\ templates_dir_exists' = TRUE
               /\ pc' = "save_open"
               /\ UNCHANGED manager_result
          ELSE /\ SaveAbandoned
               /\ UNCHANGED templates_dir_exists
    /\ UNCHANGED << store, TEMPLATE_CACHE, error, manager_call, manager_frame >>

(* line 30: open(temp_path, 'w') creates the file or empties it.           *)
SaveOpenTemp ==
    /\ pc = "save_open"
    /\ \E io_ok \in BOOLEAN :
          IF io_ok
          THEN /\ store' = StoreWith(store, SaveTempPath, FileContent("partial"))
               /\ pc' = "save_dump"
               /\ UNCHANGED manager_result
          ELSE /\ SaveAbandoned
               /\ UNCHANGED store
    /\ UNCHANGED << TEMPLATE_CACHE, error, templates_dir_exists, manager_call,
                    manager_frame >>

(* line 31 and the end of the with block: the record is written out.       *)
SaveDump ==
    /\ pc = "save_dump"
    /\ \E io_ok \in BOOLEAN :
          IF io_ok
          THEN /\ store' = StoreWith(store, SaveTempPath, manager_call.template_data)
               /\ pc' = "save_replace"
               /\ UNCHANGED manager_result
          ELSE /\ SaveAbandoned
               /\ UNCHANGED store
    /\ UNCHANGED << TEMPLATE_CACHE, error, templates_dir_exists, manager_call,
                    manager_frame >>

(* line 33: os.replace(temp_path, final_path)                              *)
SaveReplace ==
    /\ pc = "save_replace"
    /\ \E io_ok \in BOOLEAN :
          IF io_ok
          THEN /\ store' = Replace(store, SaveTempPath, SaveFinalPath)
               /\ pc' = "manager_idle"
               /\ manager_result' = [NoResult EXCEPT !.saved = TRUE]
          ELSE /\ SaveAbandoned
               /\ UNCHANGED store
    /\ UNCHANGED << TEMPLATE_CACHE, error, templates_dir_exists, manager_call,
                    manager_frame >>

(* The process ends in the middle of a save.                               *)
SaveKilled ==
    /\ pc \in {"save_mkdir", "save_open", "save_dump", "save_replace"}
    /\ pc' = "killed"
    /\ UNCHANGED << store, TEMPLATE_CACHE, error, templates_dir_exists,
                    manager_vars, manager_frame >>

(* A later run of the program over the same directory.                     *)
ManagerRestart ==
    /\ pc \in {"killed", "crashed", "warmed"}
    /\ pc' = "manager_idle"
    /\ error' = ""
    /\ TEMPLATE_CACHE' = <<>>
    /\ UNCHANGED << store, templates_dir_exists, manager_vars, manager_frame >>

(* load_template(vendor_id); an exception it does not catch reaches the    *)
(* caller.                                                                 *)
LoadCall ==
    /\ pc = "manager_idle"
    /\ \E v \in ManagerIds :
          LET r == load_template(store, v)
          IN  /\ manager_call' = [NoCall EXCEPT !.op = "load", !.vendor_id = v]
              /\ manager_result' = [NoResult EXCEPT !.found = r.found, !.data = r.data,
                                                    !.raised = r.raised]
              /\ IF r.raised # "" THEN Crash(r.raised) ELSE UNCHANGED << pc, error >>
    /\ UNCHANGED << store, TEMPLATE_CACHE, templates_dir_exists, manager_frame >>

CheckCall ==
    /\ pc = "manager_idle"
    /\ \E v \in ManagerIds :
          /\ manager_call' = [NoCall EXCEPT !.op = "check", !.vendor_id = v]
          /\ manager_result' =
                [NoResult EXCEPT !.exists = check_template_exists(store, v)]
    /\ UNCHANGED << store, TEMPLATE_CACHE, pc, error, templates_dir_exists,
                    manager_frame >>

(* load_and_cache_templates over the directory as the calls left it.       *)
WarmUpCall ==
    /\ pc = "manager_idle"
    /\ manager_call' = [NoCall EXCEPT !.op = "warm_up"]
    /\ manager_result' = NoResult
    /\ IF ~templates_dir_exists
       THEN /\ TEMPLATE_CACHE' = ResetCache(TEMPLATE_CACHE)
            /\ pc' = "warmed"
            /\ UNCHANGED error
       ELSE \E order \in GlobOrders(store) :
              LET w == WarmCache(ResetCache(TEMPLATE_CACHE), store, order)
              IN  /\ TEMPLATE_CACHE' = w.cache
                  /\ IF w.error # "" THEN Crash(w.error)
                     ELSE pc' = "warmed" /\ UNCHANGED error
    /\ UNCHANGED << store, templates_dir_exists, manager_frame >>

NextStore ==
    \/ SaveCall
    \/ SaveMkdir
    \/ SaveOpenTemp
    \/ SaveDump
    \/ SaveReplace
    \/ SaveKilled
    \/ ManagerRestart
    \/ LoadCall
    \/ CheckCall
    \/ WarmUpCall

SpecStore == InitStore /\ [][NextStore]_vars

(***************************************************************************)
(* handle_production_path on its own: the extraction loop of lines 128-133 *)
(* over templates whose field lists are drawn from a bounded set.  The     *)
(* function has no parameter for a transform: match_transform is what the  *)
(* match of the template carried, and nothing in the loop reads it.        *)
(***************************************************************************)
MaxFields == 3

AreaTotal == [x |-> 100, y |-> 200, width |-> 60, height |-> 30]

(* Stands for a field without coordinates: None or an empty dict.          *)
NoCoordinates == [x |-> 0, y |-> 0, width |-> 0, height |-> 0]

(* A field with a name and a box, a second one, a field without a name and *)
(* a field without coordinates.                                            *)
FieldKinds ==
    { [field_name |-> "invoice_number", coordinates |-> AreaLogo],
      [field_name |-> "total_amount", coordinates |-> AreaTotal],
      [field_name |-> "", coordinates |-> AreaTotal],
      [field_name |-> "invoice_date", coordinates |-> NoCoordinates] }

FieldLists == UNION { [1 .. n -> FieldKinds] : n \in 0 .. MaxFields }

ProductionTemplates ==
    { [HashTemplate(NameA, 0, 0) EXCEPT !.fields = fl] : fl \in FieldLists }
      \cup { Template(LegacyKeys \ {"fields"}, NameA, hash_to_hex(Bits(0)), <<>>) }

(* No transform (hash path), the identity, and a shift.                    *)
MatchTransforms ==
    { NoTransform,
      [found |-> TRUE, t |-> << 0, 0 >>, inliers |-> MIN_PRIMARY_INLIERS],
      [found |-> TRUE, t |-> << 5, 3 >>, inliers |-> MIN_PRIMARY_INLIERS] }

InitFields ==
    /\ production_template \in ProductionTemplates
    /\ match_transform \in MatchTransforms
    /\ field_idx = 0
    /\ extract_calls = <<>>
    /\ store = EmptyStore
    /\ TEMPLATE_CACHE = <<>>
    /\ files = <<>>
    /\ file_loc = <<>>
    /\ processing_queue = <<>>
    /\ unidentified_tasks = <<>>
    /\ pc = "production_start"
    /\ error = ""
    /\ ingest_idx = 1
    /\ stage2_idx = 1
    /\ seed_task = NoTask
    /\ new_template = NoTemplate
    /\ final_vendor_name = <<>>
    /\ prop_i = 0
    /\ pass_queue = <<>>
    /\ log = <<>>
    /\ probe = PathObject
    /\ candidates = <<>>
    /\ match_result = NoMatch
    /\ FeatureIdle
    /\ templates_dir_exists = TRUE
    /\ WarmIdle
    /\ ManagerIdle
    /\ GuiIdle

production_frame == << store, TEMPLATE_CACHE, files, file_loc, processing_queue,
                       unidentified_tasks, ingest_idx, stage2_idx, seed_task,
                       new_template, final_vendor_name, prop_i, pass_queue, log,
                       matcher_vars, feature_vars, templates_dir_exists, warm_vars,
                       manager_vars, gui_vars, production_template, match_transform >>

(* Variant: the box is handed over by its corners.                         *)
BoxOf_Corners(coords) ==
    << coords.x, coords.y, coords.x + coords.width, coords.y + coords.height >>

(* tuple(coords.values()): the values in the order of the keys, which is   *)
(* x, y, width, height as the authoring GUI writes them and json keeps     *)
(* them.                                                                   *)
BoxOf(coords) == << coords.x, coords.y, coords.width, coords.height >>

(* line 132: if field_name and coords                                      *)
HasNameAndCoordinates(field) ==
    field.field_name # "" /\ field.coordinates # NoCoordinates

(* lines 125-128: template['fields'] is a KeyError without the key.        *)
ProductionBegin ==
    /\ pc = "production_start"
    /\ IF ProductionRaises(production_template)
       THEN /\ Crash("KeyError")
            /\ UNCHANGED field_idx
       ELSE /\ field_idx' = 1
            /\ pc' = "production_loop"
            /\ UNCHANGED error
    /\ UNCHANGED << extract_calls, production_frame >>

(* lines 129-134: one field.                                               *)
ProductionField ==
    /\ pc = "production_loop"
    /\ field_idx <= Len(production_template.fields)
    /\ LET field == production_template.fields[field_idx]
       IN  extract_calls' =
               IF HasNameAndCoordinates(field)
               THEN Append(extract_calls,
                           [field_name |-> field.field_name,
                            coordinates |-> BoxOf(field.coordinates)])
               ELSE extract_calls
    /\ field_idx' = field_idx + 1
    /\ UNCHANGED << pc, error, production_frame >>

(* lines 135-167: the loop is over; the row is saved and the file renamed. *)
ProductionEnd ==
    /\ pc = "production_loop"
    /\ field_idx > Len(production_template.fields)
    /\ pc' = "production_done"
    /\ UNCHANGED << error, field_idx, extract_calls, production_frame >>

NextFields == ProductionBegin \/ ProductionField \/ ProductionEnd

SpecFields == InitFields /\ [][NextFields]_vars

(***************************************************************************)
(* The authoring GUI on its own: start_learning_gui with the events of the *)
(* operator (a box drawn on the canvas, the answer to the vendor-name      *)
(* dialog, a click in the field list, Reset, Save, Cancel) in any order.   *)
(***************************************************************************)
MIN_FEATURES_FOR_VALID_ANCHOR == 5

FIELDS_CONFIG ==
    << [name |-> "**PRIMARY ANCHOR**", mandatory |-> TRUE],
       [name |-> "**SECONDARY ANCHOR**", mandatory |-> TRUE],
       [name |-> "invoice_number", mandatory |-> TRUE],
       [name |-> "invoice_date", mandatory |-> FALSE],
       [name |-> "total_amount", mandatory |-> FALSE] >>

AnchorSteps == {"**PRIMARY ANCHOR**", "**SECONDARY ANCHOR**"}

(* f['name'].startswith('**')                                              *)
StartsWithStars(name) == name \in AnchorSteps

data_fields ==
    { FIELDS_CONFIG[k].name : k \in { j \in DOMAIN FIELDS_CONFIG :
                                        ~StartsWithStars(FIELDS_CONFIG[j].name) } }

mandatory_data_fields ==
    { FIELDS_CONFIG[k].name : k \in { j \in DOMAIN FIELDS_CONFIG :
                                        /\ FIELDS_CONFIG[j].mandatory
                                        /\ ~StartsWithStars(FIELDS_CONFIG[j].name) } }

(* detectAndCompute on the seed page: eight keypoints in a row, or none    *)
(* (global_descriptors is then None).                                      *)
GuiKeypoints == [k \in 1 .. 8 |-> Keypoint(<< 20 * k, 20 >>, FeatureDes(k))]

GuiPages == { GuiKeypoints, <<>> }

(* The boxes the operator draws, in image coordinates: around 4 keypoints, *)
(* around 5, around 5 others, around none, and one less than 10 wide.      *)
Selection(x0, y0, x1, y1) == [x0 |-> x0, y0 |-> y0, x1 |-> x1, y1 |-> y1]

SelectionBoxes ==
    { Selection(10, 0, 90, 40), Selection(10, 0, 110, 40), Selection(70, 0, 170, 40),
      Selection(0, 100, 60, 130), Selection(0, 0, 5, 40) }

(* What the vendor-name dialog returns: None (dismissed, or a blank name)  *)
(* or the stripped name.                                                   *)
DialogDismissed == <<>>

DialogResults == { DialogDismissed, NameA, NameB }

(* Variant: an anchor one feature short is accepted.                       *)
AnchorTooWeak_OneShort(global_keypoints, anchor_kp_indices) ==
    global_keypoints = <<>>
      \/ Len(anchor_kp_indices) < MIN_FEATURES_FOR_VALID_ANCHOR - 1

(* line 247: global_descriptors is None or too few keypoints in the box.   *)
AnchorTooWeak(global_keypoints, anchor_kp_indices) ==
    global_keypoints = <<>>
      \/ Len(anchor_kp_indices) < MIN_FEATURES_FOR_VALID_ANCHOR

(* lines 241-245: the indices of the keypoints inside the box, ascending.  *)
RECURSIVE KeypointsInside(_, _, _)
KeypointsInside(global_keypoints, i, box) ==
    IF i > Len(global_keypoints) THEN <<>>
    ELSE IF /\ box.x0 <= global_keypoints[i].pt[1]
            /\ global_keypoints[i].pt[1] <= box.x1
            /\ box.y0 <= global_keypoints[i].pt[2]
            /\ global_keypoints[i].pt[2] <= box.y1
         THEN <<i>> \o KeypointsInside(global_keypoints, i + 1, box)
         ELSE KeypointsInside(global_keypoints, i + 1, box)

(* line 229 *)
FinalCoords(box) ==
    [x |-> box.x0, y |-> box.y0, width |-> box.x1 - box.x0, height |-> box.y1 - box.y0]

(* lines 251-261: anchor_data                                              *)
AnchorData(global_keypoints, anchor_kp_indices, box) ==
    [is_none |-> FALSE,
     bounding_box |-> FinalCoords(box),
     descriptors |-> [k \in DOMAIN anchor_kp_indices |->
                         global_keypoints[anchor_kp_indices[k]].des],
     keypoints_pts |-> [k \in DOMAIN anchor_kp_indices |->
                           global_keypoints[anchor_kp_indices[k]].pt]]

(* self.defined_areas[selected_field] = final_coords: a dict keeps the     *)
(* place of a key that is assigned again.                                  *)
DictSet(areas, name, coords) ==
    IF \E k \in DOMAIN areas : areas[k].field_name = name
    THEN [k \in DOMAIN areas |->
             IF areas[k].field_name = name
             THEN [field_name |-> name, coordinates |-> coords] ELSE areas[k]]
    ELSE Append(areas, [field_name |-> name, coordinates |-> coords])

DefinedFields(areas) == { areas[k].field_name : k \in DOMAIN areas }

(* _validate_state: whether the Save button is enabled.                    *)
SaveAllowed(g) ==
    /\ ~g.primary_anchor.is_none
    /\ ~g.secondary_anchor.is_none
    /\ mandatory_data_fields \subseteq DefinedFields(g.defined_areas)

(* _update_workflow_state followed by _validate_state.                     *)
UpdateWorkflowState(g) ==
    LET step == IF g.primary_anchor.is_none THEN "**PRIMARY ANCHOR**"
                ELSE IF g.secondary_anchor.is_none THEN "**SECONDARY ANCHOR**"
                ELSE "DATA_FIELDS"
    IN  [g EXCEPT !.current_step = step,
                  !.listbox_enabled = (step = "DATA_FIELDS"),
                  !.save_button_enabled = SaveAllowed(g)]

(* LearningInterface.__init__                                              *)
NewGui(page, suggested_vendor_name) ==
    UpdateWorkflowState([NoGui EXCEPT !.open = TRUE, !.global_keypoints = page,
                                      !.vendor_name = suggested_vendor_name])

InitGui ==
    /\ gui \in { NewGui(page, NameA) : page \in GuiPages }
    /\ gui_result = NoFinalTemplate
    /\ store = EmptyStore
    /\ TEMPLATE_CACHE = <<>>
    /\ files = <<>>
    /\ file_loc = <<>>
    /\ processing_queue = <<>>
    /\ unidentified_tasks = <<>>
    /\ pc = "gui_mainloop"
    /\ error = ""
    /\ ingest_idx = 1
    /\ stage2_idx = 1
    /\ seed_task = NoTask
    /\ new_template = NoTemplate
    /\ final_vendor_name = <<>>
    /\ prop_i = 0
    /\ pass_queue = <<>>
    /\ log = <<>>
    /\ probe = PathObject
    /\ candidates = <<>>
    /\ match_result = NoMatch
    /\ FeatureIdle
    /\ templates_dir_exists = TRUE
    /\ WarmIdle
    /\ ManagerIdle
    /\ ProductionIdle

gui_frame == << store, TEMPLATE_CACHE, files, file_loc, processing_queue,
                unidentified_tasks, error, ingest_idx, stage2_idx, seed_task,
                new_template, final_vendor_name, prop_i, pass_queue, log,
                matcher_vars, feature_vars, templates_dir_exists, warm_vars,
                manager_vars, production_vars >>

(* _on_release after _on_press: one box drawn.  dialog is what the         *)
(* vendor-name dialog returns if this box opens it.                        *)
AfterRelease(g, box, dialog) ==
    LET final_coords == FinalCoords(box)
        anchor_kp_indices == KeypointsInside(g.global_keypoints, 1, box)
        anchor_data == AnchorData(g.global_keypoints, anchor_kp_indices, box)
    IN  IF final_coords.width < 10 \/ final_coords.height < 10 THEN g
        ELSE IF g.current_step \in AnchorSteps
        THEN IF AnchorTooWeak(g.global_keypoints, anchor_kp_indices)
             THEN UpdateWorkflowState(g)
             ELSE IF g.current_step = "**PRIMARY ANCHOR**"
             THEN IF dialog # DialogDismissed
                  THEN UpdateWorkflowState([g EXCEPT !.primary_anchor = anchor_data,
                                                     !.vendor_name = dialog])
                  ELSE UpdateWorkflowState([g EXCEPT !.primary_anchor = NoAnchor])
             ELSE UpdateWorkflowState([g EXCEPT !.secondary_anchor = anchor_data])
        ELSE IF g.curselection = ""
        THEN UpdateWorkflowState(g)
        ELSE UpdateWorkflowState(
                 [g EXCEPT !.defined_areas = DictSet(@, g.curselection, final_coords)])

GuiRelease ==
    /\ pc = "gui_mainloop"
    /\ \E box \in SelectionBoxes, dialog \in DialogResults :
          gui' = AfterRelease(gui, box, dialog)
    /\ UNCHANGED << gui_result, pc, gui_frame >>

(* _on_listbox_select: a click on an entry of the field list.              *)
GuiListboxSelect ==
    /\ pc = "gui_mainloop"
    /\ \E name \in data_fields :
          gui' = UpdateWorkflowState(
                     [gui EXCEPT !.curselection =
                         IF gui.current_step \in AnchorSteps THEN "" ELSE name])
    /\ UNCHANGED << gui_result, pc, gui_frame >>

(* Variant: Reset leaves the field boxes as they are.                      *)
OnReset_KeepsFields(g) ==
    UpdateWorkflowState([g EXCEPT !.primary_anchor = NoAnchor,
                                  !.secondary_anchor = NoAnchor])

(* _on_reset: the listbox selection is not touched.                        *)
OnReset(g) ==
    UpdateWorkflowState([g EXCEPT !.primary_anchor = NoAnchor,
                                  !.secondary_anchor = NoAnchor,
                                  !.defined_areas = <<>>])

GuiReset ==
    /\ pc = "gui_mainloop"
    /\ gui' = OnReset(gui)
    /\ UNCHANGED << gui_result, pc, gui_frame >>

(* _on_save_press: the button answers only while it is enabled.  The       *)
(* window is destroyed and start_learning_gui returns final_template.      *)
GuiSave ==
    /\ pc = "gui_mainloop"
    /\ gui.save_button_enabled
    /\ LET proposed_template ==
               [is_none |-> FALSE, vendor_name |-> gui.vendor_name,
                primary_anchor |-> gui.primary_anchor,
                secondary_anchor |-> gui.secondary_anchor,
                fields |-> gui.defined_areas]
       IN  /\ gui' = [gui EXCEPT !.final_template = proposed_template, !.open = FALSE]
           /\ gui_result' = proposed_template
    /\ pc' = "gui_returned"
    /\ UNCHANGED gui_frame

(* _on_cancel.  Closing the window ends mainloop with final_template       *)
(* still None, which comes to the same.                                    *)
OnCancel(g) == [g EXCEPT !.final_template = NoFinalTemplate, !.open = FALSE]

GuiCancel ==
    /\ pc = "gui_mainloop"
    /\ gui' = OnCancel(gui)
    /\ gui_result' = gui'.final_template
    /\ pc' = "gui_returned"
    /\ UNCHANGED gui_frame

NextGui ==
    \/ GuiRelease
    \/ GuiListboxSelect
    \/ GuiReset
    \/ GuiSave
    \/ GuiCancel

SpecGui == InitGui /\ [][NextGui]_vars

(***************************************************************************)
(* Reading the history.                                                    *)
(***************************************************************************)
Last(sq) == sq[Len(sq)]

IndicesOf(lg, op) == { k \in DOMAIN lg : lg[k].op = op }

LastIndexOf(lg, op) ==
    IF IndicesOf(lg, op) = {} THEN 0
    ELSE CHOOSE k \in IndicesOf(lg, op) : \A j \in IndicesOf(lg, op) : j <= k

CountOf(lg, op, doc) == Cardinality({ k \in DOMAIN lg : lg[k].op = op /\ lg[k].doc = doc })

(* The calls made since the seed of the current round was extracted.       *)
PassLog == SubSeq(log, LastIndexOf(log, "extract_seed") + 1, Len(log))

DocsOf(q) == { q[k].doc : k \in DOMAIN q }

(* The place of a document in the order in which stage 2 queued them.      *)
QueuedAt(doc) == CHOOSE k \in IndicesOf(log, "queued") : log[k].doc = doc

ExtractedBy(lg1, lg2, op) == \E k \in (Len(lg1) + 1) .. Len(lg2) : lg2[k].op = op

MatchesVendor(task, vendor) ==
    LET r == identify_vendor_via_hashing(TEMPLATE_CACHE, task.processed_image_obj)
    IN  r.outcome = "match" /\ r.template.vendor_name = vendor

(***************************************************************************)
(* C1: in the propagation pass that follows a confirmed template for       *)
(* vendor V, a step removes a document from the queue or extracts it only  *)
(* if identification of that document returns a template whose vendor_name *)
(* is V, and then it removes and extracts exactly that document; a         *)
(* document matched to another vendor's template stays queued and is not   *)
(* extracted.                                                              *)
(***************************************************************************)
C1_PropagationOnlyForConfirmedVendor ==
    [][ pc = "propagate" =>
          /\ (unidentified_tasks' # unidentified_tasks
                \/ ExtractedBy(log, log', "extract_propagated"))
             => /\ prop_i \in 1 .. Len(unidentified_tasks)
                /\ MatchesVendor(unidentified_tasks[prop_i], new_template.vendor_name)
                /\ DocsOf(unidentified_tasks) \ DocsOf(unidentified_tasks')
                     = { unidentified_tasks[prop_i].doc }
                /\ Len(unidentified_tasks') = Len(unidentified_tasks) - 1
                /\ Last(log').op = "extract_propagated"
                /\ Last(log').doc = unidentified_tasks[prop_i].doc
                /\ Last(log').vendor = new_template.vendor_name
          /\ (/\ prop_i \in 1 .. Len(unidentified_tasks)
              /\ ~MatchesVendor(unidentified_tasks[prop_i], new_template.vendor_name))
             => /\ unidentified_tasks' = unidentified_tasks
                /\ ~ExtractedBy(log, log', "extract_propagated")
      ]_vars

(* A pass in which one document was propagated and the next one examined   *)
(* matched a template of another vendor and is still queued.               *)
C1_OtherVendorMatchStaysQueued ==
    /\ pc = "propagate"
    /\ Len(log) >= 2
    /\ Last(log).op = "identify_hashing"
    /\ Last(log).hit
    /\ Last(log).vendor # final_vendor_name
    /\ Last(log).doc \in DocsOf(unidentified_tasks)
    /\ log[Len(log) - 1].op = "extract_propagated"

(***************************************************************************)
(* C2: when the propagation pass of a confirmed round for vendor V is      *)
(* complete, the queue is the queue the pass began with, without the       *)
(* documents identification matches to V and in the same order; each       *)
(* document of that queue was identified exactly once; each removed        *)
(* document was extracted exactly once, for V, and no other was.           *)
(***************************************************************************)
C2_PropagationPassResult ==
    (pc = "propagate" /\ prop_i = 0) =>
        /\ unidentified_tasks =
              SelectSeq(pass_queue, LAMBDA t : ~MatchesVendor(t, final_vendor_name))
        /\ \A k \in DOMAIN pass_queue :
              /\ CountOf(PassLog, "identify_hashing", pass_queue[k].doc) = 1
              /\ CountOf(PassLog, "extract_propagated", pass_queue[k].doc)
                   = IF MatchesVendor(pass_queue[k], final_vendor_name) THEN 1 ELSE 0
        /\ \A k \in DOMAIN PassLog :
              /\ PassLog[k].doc \in DocsOf(pass_queue)
              /\ PassLog[k].op = "extract_propagated" => PassLog[k].vendor = final_vendor_name

(* The example of the claim: three queued documents, two of them match.    *)
C2_TwoOfThreePropagated ==
    /\ pc = "propagate"
    /\ prop_i = 0
    /\ Len(pass_queue) = 3
    /\ Len(unidentified_tasks) = 1
    /\ Cardinality(IndicesOf(PassLog, "extract_propagated")) = 2

(***************************************************************************)
(* C3: the seed of a round is the earliest-queued document still present:  *)
(* when a seed has just been popped, it was queued by stage 2 before every *)
(* document left in the queue, and the seeds of a session follow each      *)
(* other in the order in which stage 2 queued them.                        *)
(***************************************************************************)
C3_SeedIsOldestQueued ==
    /\ (log # <<>> /\ Last(log).op = "seed") =>
          /\ seed_task.doc = Last(log).doc
          /\ seed_task.doc \notin DocsOf(unidentified_tasks)
          /\ \A d \in DocsOf(unidentified_tasks) : QueuedAt(seed_task.doc) < QueuedAt(d)
    /\ \A j, k \in IndicesOf(log, "seed") :
          j < k => QueuedAt(log[j].doc) < QueuedAt(log[k].doc)

(* A second round takes its seed while documents are still queued.         *)
C3_SecondSeedPopped ==
    /\ pc = "authoring"
    /\ Cardinality(IndicesOf(log, "seed")) >= 2
    /\ unidentified_tasks # <<>>

(***************************************************************************)
(* C4: from the moment the authoring call returns no template until the    *)
(* round is over, the queue, the template store and the template cache do  *)
(* not change, nothing is identified or extracted, and the round goes      *)
(* nowhere but to its end.                                                 *)
(***************************************************************************)
C4_CancelledRoundFrame ==
    [][ ((pc = "authoring" /\ pc' = "cancelled") \/ pc = "cancelled") =>
          /\ unidentified_tasks' = unidentified_tasks
          /\ store' = store
          /\ TEMPLATE_CACHE' = TEMPLATE_CACHE
          /\ new_template' = NoTemplate
          /\ pc' \in {"cancelled", "session_loop", "crashed"}
          /\ \A k \in (Len(log) + 1) .. Len(log') :
                log'[k].op \in {"authoring_none", "archive_unprocessed"}
      ]_vars

(* A cancelled round is over while documents are still queued and the      *)
(* cache holds a template.                                                 *)
C4_CancelledRoundOver ==
    /\ pc \in {"session_loop", "crashed"}
    /\ IndicesOf(log, "authoring_none") # {}
    /\ LastIndexOf(log, "authoring_none") > LastIndexOf(log, "seed")
    /\ unidentified_tasks # <<>>
    /\ TEMPLATE_CACHE # <<>>

(***************************************************************************)
(* C5: once a cancelled authoring call has been handled, the seed's source *)
(* file is archived under the UNPROCESSED marker and the run has not been  *)
(* ended by an exception of that round.                                    *)
(***************************************************************************)
FileOfDoc(doc) == processing_queue[doc].original_path

C5_CancelledSeedArchived ==
    \A k \in IndicesOf(log, "authoring_none") :
        ~(k = Len(log) /\ pc = "cancelled") =>
            /\ file_loc[FileOfDoc(log[k].doc)] = "archive_unprocessed"
            /\ ~(k = Len(log) /\ pc = "crashed")

(***************************************************************************)
(* C6: when every authoring call of the session has returned, the loop of  *)
(* start_interactive_session is left only with the queue empty.            *)
(***************************************************************************)
SessionOver == pc \in {"done", "crashed"} /\ IndicesOf(log, "seed") # {}

C6_LoopExitsOnlyWhenQueueEmpty ==
    (/\ SessionOver
     /\ IndicesOf(log, "authoring_raised") = {}
     /\ LastIndexOf(log, "seed") < Len(log))
    => unidentified_tasks = <<>>

(***************************************************************************)
(* C7: once a confirmed round has got past its bookkeeping, its history    *)
(* reads: template returned, save_template, cache append, extraction of    *)
(* the seed, and only then the identifications of the propagation pass;    *)
(* the cache then holds an entry for the confirmed template.               *)
(***************************************************************************)
C7_ConfirmedStepsInOrder ==
    LET k == LastIndexOf(log, "authoring_template")
    IN  (/\ k > 0
         /\ k > LastIndexOf(log, "authoring_none")
         /\ pc \notin {"confirmed", "cache_append", "seed_production"})
        => /\ Len(log) >= k + 3
           /\ log[k + 1].op = "save_template"
           /\ log[k + 2].op = "cache_append"
           /\ log[k + 3].op = "extract_seed"
           /\ \E c \in DOMAIN TEMPLATE_CACHE :
                 /\ TEMPLATE_CACHE[c].vendor_name = log[k].vendor
                 /\ TEMPLATE_CACHE[c].full_template_data = new_template

(***************************************************************************)
(* C8: a page is queued as unidentified only after it has been offered to  *)
(* the feature matcher identify_vendor_via_features, and every             *)
(* identification made for a queued document in a propagation pass is      *)
(* accompanied by one of the feature matcher.                              *)
(***************************************************************************)
C8_FeaturePathBeforeQueueing ==
    /\ \A k \in IndicesOf(log, "queued") :
          \E j \in 1 .. (k - 1) :
              log[j].op = "identify_features" /\ log[j].doc = log[k].doc
    /\ \A k \in DOMAIN PassLog :
          (pc = "propagate" /\ PassLog[k].op = "identify_hashing")
            => CountOf(PassLog, "identify_features", PassLog[k].doc) >= 1

(***************************************************************************)
(* C9: when stage 2 is over, every page of the processing queue has been   *)
(* handled exactly once: either extracted by stage 2 or queued as          *)
(* unidentified, never both and never neither.                             *)
(***************************************************************************)
C9_EveryPageHandledOnce ==
    pc \notin {"start", "ingest", "stage2", "matcher", "triaged", "returned"} =>
        \A d \in DOMAIN processing_queue :
            CountOf(log, "extract_stage2", d) + CountOf(log, "queued", d) = 1

(***************************************************************************)
(* C10: the candidates of the triage tier are exactly the cache entries    *)
(* that have no triage hash or whose triage hash is within                 *)
(* TRIAGE_MATCH_THRESHOLD bits of the page's, in cache order; an entry     *)
(* without a triage hash is always a candidate, and so is every entry      *)
(* within the triage threshold that passes the precise tier.               *)
(***************************************************************************)
TriageDone == pc = "triaged" \/ (pc = "returned" /\ TEMPLATE_CACHE # <<>> /\ probe.kind = "PIL")

WithinTriage(c) ==
    Cardinality((average_hash(probe) \ c.precomputed_triage_hash)
                  \cup (c.precomputed_triage_hash \ average_hash(probe)))
      <= TRIAGE_MATCH_THRESHOLD

C10_TriageCandidatesExact ==
    TriageDone =>
        /\ candidates = SelectSeq(TEMPLATE_CACHE, LAMBDA c : ~c.has_triage \/ WithinTriage(c))
        /\ \A k \in DOMAIN TEMPLATE_CACHE :
              ~TEMPLATE_CACHE[k].has_triage
                => \E j \in DOMAIN candidates : candidates[j] = TEMPLATE_CACHE[k]
        /\ \A k \in DOMAIN TEMPLATE_CACHE :
              (WithinTriage(TEMPLATE_CACHE[k]) /\ PrecisePass(TEMPLATE_CACHE[k], probe))
                => \E j \in DOMAIN candidates : candidates[j] = TEMPLATE_CACHE[k]

(* One entry is kept at exactly the threshold while another, one bit       *)
(* further away, is filtered out.                                          *)
C10_ThresholdEntryKept ==
    /\ pc = "triaged"
    /\ Len(TEMPLATE_CACHE) = 2
    /\ Len(candidates) = 1
    /\ candidates[1].has_triage
    /\ HashDistance(average_hash(probe), candidates[1].precomputed_triage_hash)
         = TRIAGE_MATCH_THRESHOLD
    /\ \E k \in DOMAIN TEMPLATE_CACHE :
          HashDistance(average_hash(probe), TEMPLATE_CACHE[k].precomputed_triage_hash)
            = TRIAGE_MATCH_THRESHOLD + 1

(***************************************************************************)
(* C11: identify_vendor_via_hashing returns the first cache entry, in      *)
(* cache order, that survives the triage tier and whose precise distance   *)
(* is at most HASH_MATCH_THRESHOLD, whatever the distances of later        *)
(* entries; it returns no match exactly when no surviving entry is within  *)
(* the threshold.                                                          *)
(***************************************************************************)
WithinPrecise(c) ==
    Cardinality((phash_of_crop(probe, c.identifier_area) \ c.precomputed_precise_hash)
                  \cup (c.precomputed_precise_hash \ phash_of_crop(probe, c.identifier_area)))
      <= HASH_MATCH_THRESHOLD

Survivors ==
    { k \in DOMAIN TEMPLATE_CACHE :
        /\ ~TEMPLATE_CACHE[k].has_triage \/ WithinTriage(TEMPLATE_CACHE[k])
        /\ WithinPrecise(TEMPLATE_CACHE[k]) }

C11_FirstPreciseMatchWins ==
    (pc = "returned" /\ probe.kind = "PIL") =>
        /\ match_result.outcome \in {"match", "none"}
        /\ match_result.outcome = "none" <=> Survivors = {}
        /\ Survivors # {} =>
              \E k \in Survivors :
                  /\ \A j \in Survivors : k <= j
                  /\ match_result.vendor_name = TEMPLATE_CACHE[k].vendor_name
                  /\ match_result.template = TEMPLATE_CACHE[k].full_template_data

(* The returned entry is one bit away while a later surviving entry is at  *)
(* distance zero.                                                          *)
C11_LaterEntryIsCloser ==
    /\ pc = "returned"
    /\ match_result.outcome = "match"
    /\ Len(TEMPLATE_CACHE) = 2
    /\ Survivors = {1, 2}
    /\ match_result.template = TEMPLATE_CACHE[1].full_template_data
    /\ match_result.template # TEMPLATE_CACHE[2].full_template_data
    /\ PreciseDistance(TEMPLATE_CACHE[1], probe) = 1
    /\ PreciseDistance(TEMPLATE_CACHE[2], probe) = 0

(***************************************************************************)
(* C12: identify_vendor_via_hashing never returns an entry whose           *)
(* identifier box reaches outside the page it was given.                   *)
(***************************************************************************)
BoxInsidePage(area, image) ==
    /\ area.x >= 0
    /\ area.y >= 0
    /\ area.x + area.width <= image.width
    /\ area.y + area.height <= image.height

C12_OutOfBoundsCandidateSkipped ==
    (pc = "returned" /\ match_result.outcome = "match") =>
        BoxInsidePage(match_result.template.identifier_area, probe)

(***************************************************************************)
(* C17: a document is extracted with a template by stage 2 or by a         *)
(* propagation pass only in the step in which identify_vendor_via_hashing  *)
(* was called for it, and only when the two hash tiers over the cache      *)
(* return that template for its page; the template is a hash template      *)
(* (identifier hash and area, no anchors); the feature matcher is never    *)
(* called.  (The seed of a round is extracted with the template authored   *)
(* from it, without a matcher.)                                            *)
(***************************************************************************)
HashDecision(doc) ==
    PreciseLoop(TriageCandidates(TEMPLATE_CACHE, processing_queue[doc].processed_image_obj),
                1, processing_queue[doc].processed_image_obj)

C17_HashTemplatesMatchedByHashOnly ==
    [][ \A k \in (Len(log) + 1) .. Len(log') :
          /\ log'[k].op # "identify_features"
          /\ log'[k].op \in {"extract_stage2", "extract_propagated"} =>
                /\ k > 1
                /\ log'[k - 1].op = "identify_hashing"
                /\ log'[k - 1].doc = log'[k].doc
                /\ HashDecision(log'[k].doc).outcome = "match"
                /\ HashDecision(log'[k].doc).vendor_name = log'[k].vendor
                /\ Has(HashDecision(log'[k].doc).template, "identifier_hash")
                /\ Has(HashDecision(log'[k].doc).template, "identifier_area")
                /\ ~Has(HashDecision(log'[k].doc).template, "primary_anchor")
      ]_vars

(* Stage 2 has extracted a page with a persisted template that has an      *)
(* identifier hash and area and nothing else to match by.                  *)
C17_LegacyTemplateMatchedInStage2 ==
    /\ log # <<>>
    /\ Last(log).op = "extract_stage2"
    /\ Last(log).vendor = NameB
    /\ \E c \in DOMAIN TEMPLATE_CACHE :
          /\ TEMPLATE_CACHE[c].full_template_data = PersistedB
          /\ ~TEMPLATE_CACHE[c].has_triage

(***************************************************************************)
(* Reading a run of the feature matcher.                                   *)
(***************************************************************************)
FeatReturned == pc = "feat_returned"

FeatConfirmed == pc = "feat_returned" /\ feat_result.outcome = "match"

AcceptedPrimary(t) == Len(GoodMatches(t.primary_anchor, incoming))

AcceptedSecondary(t) == Len(GoodMatches(t.secondary_anchor, incoming))

(* The accepted secondary matches whose page position is less than 7.5 px  *)
(* from the position the primary transform predicts.                       *)
SecondaryAgreeing(t) ==
    LET good == GoodMatches(t.secondary_anchor, incoming)
        tr == PrimaryTransform(t, incoming)
    IN  { k \in DOMAIN good :
            4 * SqDist(incoming[good[k].trainIdx].pt,
                       PtAdd(t.secondary_anchor.anchor_keypoints_pts[good[k].queryIdx], tr.t))
              < 225 }

(***************************************************************************)
(* C13: the template identify_vendor_via_features confirms has at least    *)
(* MIN_SECONDARY_INLIERS_CONSISTENT accepted secondary matches within      *)
(* SECONDARY_VERIFICATION_THRESHOLD_PX of the position predicted by the    *)
(* transform of its primary anchor; a template without that many is never  *)
(* the one returned, however many accepted matches its anchors have.       *)
(***************************************************************************)
C13_SecondaryConsistentWithPrimary ==
    FeatConfirmed =>
        /\ feat_idx \in DOMAIN orb_templates
        /\ feat_result = FeatureMatch(orb_templates[feat_idx])
        /\ Cardinality(SecondaryAgreeing(orb_templates[feat_idx])) >= 10
        /\ \A k \in DOMAIN orb_templates :
              Cardinality(SecondaryAgreeing(orb_templates[k])) < 10
                => feat_result.template # orb_templates[k].full_template_data

(* The first template has enough accepted matches on both anchors and a    *)
(* primary lock, its secondary anchor is shifted beyond the threshold, and *)
(* the matcher has confirmed the second template instead.                  *)
C13_ShiftedSecondaryRejected ==
    /\ FeatConfirmed
    /\ feat_idx = 2
    /\ AcceptedPrimary(orb_templates[1]) >= 12
    /\ PrimaryTransform(orb_templates[1], incoming).inliers >= 12
    /\ AcceptedSecondary(orb_templates[1]) >= 10
    /\ SecondaryAgreeing(orb_templates[1]) = {}

(***************************************************************************)
(* C14: the secondary check of a template is reached, and a template is    *)
(* confirmed, only when its primary anchor has at least                    *)
(* MIN_PRIMARY_INLIERS accepted matches, a transform was estimated from    *)
(* them and that transform has at least MIN_PRIMARY_INLIERS inliers; the   *)
(* secondary check then works with that transform.                         *)
(***************************************************************************)
C14_PrimaryLockBeforeSecondary ==
    (pc = "feat_secondary" \/ FeatConfirmed) =>
        /\ feat_idx \in DOMAIN orb_templates
        /\ AcceptedPrimary(orb_templates[feat_idx]) >= 12
        /\ PrimaryTransform(orb_templates[feat_idx], incoming).found
        /\ PrimaryTransform(orb_templates[feat_idx], incoming).inliers >= 12
        /\ affine = PrimaryTransform(orb_templates[feat_idx], incoming)

(* The first template had twelve accepted primary matches and a transform  *)
(* with eleven inliers and was passed over; the second holds the lock.     *)
C14_LockHeldAfterWeakPrimary ==
    /\ pc = "feat_secondary"
    /\ feat_idx = 2
    /\ AcceptedPrimary(orb_templates[1]) = 12
    /\ PrimaryTransform(orb_templates[1], incoming).found
    /\ PrimaryTransform(orb_templates[1], incoming).inliers = 11

(***************************************************************************)
(* C15: identify_vendor_via_features returns the first template of the     *)
(* list that passes the primary and the secondary check; templates that    *)
(* fail a check are passed over one by one; it returns no match exactly    *)
(* when no template of the list passes.                                    *)
(***************************************************************************)
PassingTemplates ==
    { k \in DOMAIN orb_templates :
        /\ incoming # <<>>
        /\ PrimaryLock(orb_templates[k], incoming)
        /\ SecondaryConfirmed(orb_templates[k], incoming,
                              PrimaryTransform(orb_templates[k], incoming)) }

C15_FirstPassingTemplateWins ==
    FeatReturned =>
        /\ feat_result.outcome \in {"match", "none"}
        /\ feat_result.outcome = "none" <=> PassingTemplates = {}
        /\ feat_result.outcome = "none" => feat_result = NoFeatureMatch
        /\ PassingTemplates # {} =>
              \E k \in PassingTemplates :
                  /\ \A j \in PassingTemplates : k <= j
                  /\ feat_result = FeatureMatch(orb_templates[k])

(* The first template has too few accepted primary matches on the page and *)
(* the second one is returned.                                             *)
C15_SecondTemplateAfterReject ==
    /\ FeatReturned
    /\ feat_result.outcome = "match"
    /\ Len(orb_templates) = 2
    /\ AcceptedPrimary(orb_templates[1]) < 12
    /\ feat_result.vendor_name = orb_templates[2].vendor_name
    /\ feat_result.vendor_name # orb_templates[1].vendor_name

ValidHashFile(t) ==
    /\ t.form = "dict"
    /\ {"vendor_name", "identifier_area", "identifier_hash"} \subseteq t.keys
    /\ t.identifier_hash # <<>>
    /\ \A d \in DOMAIN t.identifier_hash : t.identifier_hash[d] < 16
    /\ ("triage_hash" \in t.keys /\ t.triage_hash # <<>>)
         => \A d \in DOMAIN t.triage_hash : t.triage_hash[d] < 16

(* A file that holds a two-anchor template as the authoring GUI builds it. *)
ValidFeatureFile(t) ==
    /\ t.form = "dict"
    /\ {"vendor_name", "primary_anchor", "secondary_anchor", "fields"} \subseteq t.keys

ValidFiles == { f \in DOMAIN store : ValidHashFile(store[f]) }

EntryOf(t) == CachedItem(t, "triage_hash" \in t.keys /\ t.triage_hash # <<>>)

(***************************************************************************)
(* C18: load_and_cache_templates is never ended by an exception, whatever  *)
(* the template files hold, and when it has returned every file that holds *)
(* a valid template has its entry in the cache.                            *)
(***************************************************************************)
C18_WarmUpSurvivesCorruptFiles ==
    /\ pc # "crashed"
    /\ (pc = "warm_done" /\ templates_dir_exists) =>
          \A f \in ValidFiles :
              \E k \in DOMAIN TEMPLATE_CACHE : TEMPLATE_CACHE[k] = EntryOf(store[f])

(***************************************************************************)
(* C19: when load_and_cache_templates has returned, every file that holds  *)
(* a valid template, a hash template or a two-anchor template of the       *)
(* authoring GUI, has exactly one entry in the cache.                      *)
(***************************************************************************)
C19_EveryValidTemplateCached ==
    (pc = "warm_done" /\ templates_dir_exists) =>
        \A f \in DOMAIN store :
            (ValidHashFile(store[f]) \/ ValidFeatureFile(store[f])) =>
                Cardinality({ k \in DOMAIN TEMPLATE_CACHE :
                                TEMPLATE_CACHE[k].full_template_data = store[f] }) = 1

RebuiltCaches == { WarmCache(<<>>, store, order).cache : order \in GlobOrders(store) }

Occurrences(c, e) == Cardinality({ k \in DOMAIN c : c[k] = e })

SameEntries(c1, c2) ==
    /\ Len(c1) = Len(c2)
    /\ \A k \in DOMAIN c1 : Occurrences(c1, c1[k]) = Occurrences(c2, c1[k])

JustAppended ==
    /\ Len(log) >= 2
    /\ Last(log).op = "cache_append"
    /\ log[Len(log) - 1].op = "save_template"
    /\ log[Len(log) - 1].hit

C24_FailedSaveDoesNotEndRun ==
    (/\ log # <<>>
     /\ Last(log).op = "save_template"
     /\ ~Last(log).hit)
    => pc # "crashed"

WasQueued(d) == \E k \in DOMAIN log : log[k].op = "queued" /\ log[k].doc = d

Settled(d) ==
    /\ d \notin DocsOf(unidentified_tasks)
    /\ CountOf(log, "extract_seed", d) + CountOf(log, "extract_propagated", d)
         + CountOf(log, "archive_unprocessed", d) = 1

AuthoringRaised == IndicesOf(log, "authoring_raised") # {}

C30_QueuedDocumentsSettledAtEnd ==
    (SessionOver /\ ~AuthoringRaised) =>
        \A d \in DOMAIN processing_queue : WasQueued(d) => Settled(d)

(***************************************************************************)
(* C22: at every point of a save, a stopped one included, no *.json file   *)
(* holds a partly written record and the vendor's final file is absent (if *)
(* it was absent before), holds what it held before the save, or holds the *)
(* complete new record; after a warm-up every cache entry comes from a     *)
(* *.json file, never from a temporary file.                               *)
(***************************************************************************)
SaveUnderWay ==
    /\ manager_call.op = "save"
    /\ manager_call.vendor_id # <<>>
    /\ manager_call.template_data.form = "dict"

C22_FinalFileNeverPartial ==
    /\ \A f \in JsonFiles(store) : store[f].form # "partial"
    /\ SaveUnderWay =>
          IF SaveFinalPath \in DOMAIN store
          THEN \/ store[SaveFinalPath] = manager_call.template_data
               \/ manager_call.existed /\ store[SaveFinalPath] = manager_call.before
          ELSE ~manager_call.existed
    /\ pc = "warmed" =>
          \A k \in DOMAIN TEMPLATE_CACHE :
              \E f \in JsonFiles(store) : TEMPLATE_CACHE[k].full_template_data = store[f]

(* A stopped save left a temporary file with a complete hash template that *)
(* no *.json file holds; the warm-up of the next run cached the old record *)
(* of the final file and nothing else.                                     *)
C22_LeftoverTempNotLoaded ==
    /\ pc = "warmed"
    /\ Len(TEMPLATE_CACHE) = 1
    /\ \E f \in (DOMAIN store) \ JsonFiles(store) :
          /\ ValidHashFile(store[f])
          /\ \A g \in JsonFiles(store) : store[g] # store[f]

(***************************************************************************)
(* C23: a load_template call returns without raising.                      *)
(***************************************************************************)
C23_LoadNeverRaises ==
    manager_call.op = "load" => manager_result.raised = "" /\ pc # "crashed"

(***************************************************************************)
(* C25: once save_template(v, t) has succeeded, every id that differs from *)
(* v only in letter case, punctuation, surrounding whitespace or the       *)
(* make-up of its runs of whitespace, underscore and hyphen finds the file *)
(* (check_template_exists) and loads t from it (load_template).            *)
(***************************************************************************)
(* An id with those differences taken away.                                *)
IdWithoutDifferences(v) ==
    LET lowered == [k \in 1 .. Len(v) |-> LowerChar(v[k])]
        kept == SelectSeq(lowered, LAMBDA c : c \in WordChars \cup JoinChars)
    IN  CollapseJoins(RStrip(LStrip(kept)))

C25_SavedRecordFoundUnderVariants ==
    (pc = "manager_idle" /\ SaveUnderWay /\ manager_result.saved) =>
        \A w \in ManagerIds :
            IdWithoutDifferences(w) = IdWithoutDifferences(manager_call.vendor_id) =>
                /\ check_template_exists(store, w)
                /\ load_template(store, w).found
                /\ load_template(store, w).data = manager_call.template_data

(***************************************************************************)
(* C26: when the match carries a transform, each box handed to text        *)
(* extraction is the axis-aligned bounding rectangle of the stored field   *)
(* box's four corners mapped through that transform.                       *)
(***************************************************************************)
ExtractedFields == SelectSeq(production_template.fields, HasNameAndCoordinates)

CornersOf(c) ==
    { << c.x, c.y >>, << c.x + c.width, c.y >>, << c.x, c.y + c.height >>,
      << c.x + c.width, c.y + c.height >> }

MinOf(S) == CHOOSE m \in S : \A n \in S : m <= n

MaxOf(S) == CHOOSE m \in S : \A n \in S : m >= n

ProjectedBox(c, transform) ==
    LET mapped == { PtAdd(p, transform.t) : p \in CornersOf(c) }
        xs == { p[1] : p \in mapped }
        ys == { p[2] : p \in mapped }
    IN  << MinOf(xs), MinOf(ys), MaxOf(xs) - MinOf(xs), MaxOf(ys) - MinOf(ys) >>

C26_BoxProjectedThroughTransform ==
    (pc = "production_done" /\ match_transform.found) =>
        /\ Len(extract_calls) = Len(ExtractedFields)
        /\ \A k \in DOMAIN extract_calls :
              extract_calls[k].coordinates =
                  ProjectedBox(ExtractedFields[k].coordinates, match_transform)

(***************************************************************************)
(* C27: when the transform is the identity or there is none, text          *)
(* extraction is called once for each field that has a name and            *)
(* coordinates, in template order, with the field's stored box             *)
(* (x, y, width, height) unchanged; while the loop runs the calls made are *)
(* those of the fields already visited.                                    *)
(***************************************************************************)
StoredBox(c) == << c.x, c.y, c.width, c.height >>

CallsFor(fields) ==
    LET kept == SelectSeq(fields, HasNameAndCoordinates)
    IN  [k \in 1 .. Len(kept) |->
            [field_name |-> kept[k].field_name,
             coordinates |-> StoredBox(kept[k].coordinates)]]

C27_StoredBoxOncePerField ==
    (/\ pc \in {"production_loop", "production_done"}
     /\ match_transform \in {NoTransform, [match_transform EXCEPT !.t = << 0, 0 >>]})
    => extract_calls = CallsFor(SubSeq(production_template.fields, 1, field_idx - 1))

(* No transform; three fields, the second without a name; two calls.       *)
C27_TwoOfThreeFieldsExtracted ==
    /\ pc = "production_done"
    /\ ~match_transform.found
    /\ Len(production_template.fields) = 3
    /\ ~HasNameAndCoordinates(production_template.fields[2])
    /\ Len(extract_calls) = 2
    /\ extract_calls[1].coordinates # extract_calls[2].coordinates

(***************************************************************************)
(* C28: whatever the operator did, a template returned by                  *)
(* start_learning_gui has a primary and a secondary anchor, each with as   *)
(* many descriptors as keypoint positions and at least                     *)
(* MIN_FEATURES_FOR_VALID_ANCHOR of them, and a box for every mandatory    *)
(* data field; and no anchor the GUI holds at any time has fewer features. *)
(***************************************************************************)
ValidAnchor(a) ==
    /\ ~a.is_none
    /\ Len(a.descriptors) = Len(a.keypoints_pts)
    /\ Len(a.descriptors) >= MIN_FEATURES_FOR_VALID_ANCHOR

C28_ReturnedTemplateIsValid ==
    /\ (pc = "gui_returned" /\ ~gui_result.is_none) =>
          /\ ValidAnchor(gui_result.primary_anchor)
          /\ ValidAnchor(gui_result.secondary_anchor)
          /\ \A name \in mandatory_data_fields :
                \E k \in DOMAIN gui_result.fields :
                    /\ gui_result.fields[k].field_name = name
                    /\ gui_result.fields[k].coordinates.width >= 10
                    /\ gui_result.fields[k].coordinates.height >= 10
    /\ \A a \in {gui.primary_anchor, gui.secondary_anchor} : a.is_none \/ ValidAnchor(a)

(* A template was returned whose primary anchor has exactly the minimum    *)
(* number of features and which has a box for an optional field as well.   *)
C28_TemplateWithMinimalAnchorReturned ==
    /\ pc = "gui_returned"
    /\ ~gui_result.is_none
    /\ Len(gui_result.primary_anchor.descriptors) = MIN_FEATURES_FOR_VALID_ANCHOR
    /\ gui_result.primary_anchor # gui_result.secondary_anchor
    /\ Len(gui_result.fields) = 2
    /\ gui_result.vendor_name = NameB

(***************************************************************************)
(* C31: between documents, every entry of the template cache has a         *)
(* template file in the store whose content is the entry's full template   *)
(* record: no entry for a template whose save failed, and no entry left    *)
(* behind when a later save replaced its file.                             *)
(***************************************************************************)
BetweenDocuments == pc \in {"stage2", "session_loop", "seed_production", "propagate", "done"}

HasPersistedFile(cached_item) ==
    \E f \in JsonFiles(store) : store[f] = cached_item.full_template_data

InitCalls == Init \/ InitMatcher \/ InitFeatures

NextCalls == Next \/ NextMatcher \/ NextFeatures

SpecCalls == InitCalls /\ [][NextCalls]_vars

(***************************************************************************)
(* C32: a step of identify_vendor_via_hashing or of                        *)
(* identify_vendor_via_features changes neither the template cache, nor    *)
(* the template list, nor the store; once the warm-up is over the cache    *)
(* changes only by one entry appended at its end, after a confirmed        *)
(* template was saved and before the next document is looked at, at most   *)
(* once per confirmed template; the entries it held stay as they were, in  *)
(* their places, and a page that matched keeps its match.                  *)
(***************************************************************************)
HashMatcherStep ==
    \/ pc \in {"matcher", "triaged"}
    \/ \E k \in (Len(log) + 1) .. Len(log') : log'[k].op = "identify_hashing"

FeatureMatcherStep == pc \in {"feat_start", "feat_primary", "feat_secondary", "feat_returned"}

OneEntryAppended ==
    /\ Len(TEMPLATE_CACHE') = Len(TEMPLATE_CACHE) + 1
    /\ SubSeq(TEMPLATE_CACHE', 1, Len(TEMPLATE_CACHE)) = TEMPLATE_CACHE
    /\ Last(TEMPLATE_CACHE').full_template_data = new_template

MatchKept(image) ==
    identify_vendor_via_hashing(TEMPLATE_CACHE, image).outcome = "match" =>
        identify_vendor_via_hashing(TEMPLATE_CACHE', image)
          = identify_vendor_via_hashing(TEMPLATE_CACHE, image)

C32_CacheOnlyGrowsAtItsEnd ==
    [][ /\ HashMatcherStep =>
              /\ TEMPLATE_CACHE' = TEMPLATE_CACHE
              /\ store' = store
        /\ FeatureMatcherStep =>
              /\ orb_templates' = orb_templates
              /\ TEMPLATE_CACHE' = TEMPLATE_CACHE
              /\ store' = store
        /\ pc # "start" =>
              \/ TEMPLATE_CACHE' = TEMPLATE_CACHE
              \/ /\ pc = "cache_append"
                 /\ OneEntryAppended
                 /\ \A image \in Looks : MatchKept(image)
                 /\ Cardinality(IndicesOf(log', "cache_append"))
                      <= Cardinality(IndicesOf(log', "authoring_template"))
      ]_vars

(* A confirmed round has appended its entry behind what the cache held,    *)
(* and the propagation pass has matched a page against it.                 *)
C32_AppendedBehindAndMatched ==
    /\ pc = "propagate"
    /\ Len(TEMPLATE_CACHE) >= 2
    /\ Last(log).op = "extract_propagated"
    /\ Last(TEMPLATE_CACHE).full_template_data = new_template
    /\ Last(log).vendor = Last(TEMPLATE_CACHE).vendor_name

(***************************************************************************)
(* C33: a result of identify_vendor_via_hashing or of                      *)
(* identify_vendor_via_features that reports a match carries a vendor name *)
(* and a template record, and the name is the record's vendor_name; a      *)
(* result that reports none carries neither; so the test of stage 2 (name  *)
(* and template) and the first test of the propagation pass (template)     *)
(* give the same answer on every result.                                   *)
(***************************************************************************)
(* A record that is a non-empty dict, and a name that is a non-empty       *)
(* string: what Python's truth test accepts.                               *)
Present(template) == template.form = "dict" /\ template.keys # {}

ResultWellFormed(r) ==
    /\ r.outcome = "match" =>
          /\ r.vendor_name # <<>>
          /\ Present(r.template)
          /\ r.vendor_name = r.template.vendor_name
    /\ r.outcome = "none" =>
          /\ r.vendor_name = <<>>
          /\ ~Present(r.template)

(* main.py line 212, first operand: template_data_propagated               *)
PropagationTemplateTest(r) == Present(r.template)

CallerTestsAgree(r) == Stage2Match(r) <=> PropagationTemplateTest(r)

PageResults ==
    { identify_vendor_via_hashing(TEMPLATE_CACHE, processing_queue[k].processed_image_obj) :
        k \in DOMAIN processing_queue }

C33_MatchResultWellFormed ==
    /\ (pc = "returned" /\ match_result.outcome \in {"match", "none"}) =>
          ResultWellFormed(match_result) /\ CallerTestsAgree(match_result)
    /\ pc = "feat_returned" =>
          ResultWellFormed(feat_result) /\ CallerTestsAgree(feat_result)
    /\ \A r \in PageResults :
          r.outcome \in {"match", "none"} => ResultWellFormed(r) /\ CallerTestsAgree(r)

(***************************************************************************)
(* C34: in the authoring GUI a primary anchor comes to exist only together *)
(* with a name the vendor-name dialog returned, a secondary anchor only    *)
(* while a primary anchor exists, and a field box only while both anchors  *)
(* exist; a box drawn at the primary step whose dialog is dismissed leaves *)
(* no primary anchor; Reset leaves no anchor and no field box, the primary *)
(* step and a disabled Save button; Cancel returns no template, from a     *)
(* state in which Save was enabled as from any other.                      *)
(***************************************************************************)
AcceptedNames == DialogResults \ {DialogDismissed}

PrimaryCaptured == gui.primary_anchor.is_none /\ ~gui'.primary_anchor.is_none

SecondaryCaptured == gui.secondary_anchor.is_none /\ ~gui'.secondary_anchor.is_none

FieldBoxDrawn == gui'.defined_areas # gui.defined_areas /\ gui'.defined_areas # <<>>

AfterResetState(g) ==
    /\ g.primary_anchor.is_none
    /\ g.secondary_anchor.is_none
    /\ g.defined_areas = <<>>
    /\ g.current_step = "**PRIMARY ANCHOR**"
    /\ ~g.listbox_enabled
    /\ ~g.save_button_enabled

C34_AuthoringStepsInOrder ==
    [][ pc = "gui_mainloop" =>
          /\ PrimaryCaptured =>
                \E box \in SelectionBoxes, dialog \in AcceptedNames :
                    /\ gui' = AfterRelease(gui, box, dialog)
                    /\ gui'.vendor_name = dialog
          /\ SecondaryCaptured =>
                /\ ~gui.primary_anchor.is_none
                /\ gui.vendor_name \in AcceptedNames
                /\ gui'.primary_anchor = gui.primary_anchor
          /\ FieldBoxDrawn =>
                /\ ~gui.primary_anchor.is_none
                /\ ~gui.secondary_anchor.is_none
          /\ ~gui'.secondary_anchor.is_none => ~gui'.primary_anchor.is_none
          /\ gui'.defined_areas # <<>> => ~gui'.secondary_anchor.is_none
          /\ gui.current_step = "**PRIMARY ANCHOR**" =>
                \A box \in SelectionBoxes :
                    AfterRelease(gui, box, DialogDismissed).primary_anchor.is_none
          /\ AfterResetState(OnReset(gui))
          /\ OnCancel(gui).final_template.is_none
          /\ (pc' = "gui_returned" /\ gui'.final_template.is_none) => gui_result'.is_none
      ]_vars

(* Cancel was pressed while Save was enabled: both anchors and the         *)
(* mandatory field were defined, and no template came back.                *)
C34_CancelAfterValidState ==
    /\ pc = "gui_returned"
    /\ gui.save_button_enabled
    /\ SaveAllowed(gui)
    /\ gui.final_template.is_none
    /\ gui_result = NoFinalTemplate

(***************************************************************************)
(* _sanitize_filename on its own: save_template with a vendor id drawn     *)
(* from the strings of up to MaxIdLen characters, then the warm-up of      *)
(* load_and_cache_templates, which calls load_template with the stem of    *)
(* each file it finds.                                                     *)
(***************************************************************************)
MaxIdLen == 3

(* A capital, a small letter, whitespace, the two other joining            *)
(* characters and a punctuation mark.                                      *)
NameChars == {"A", "a", " ", "_", "-", "."}

NameIds == UNION { [1 .. n -> NameChars] : n \in 0 .. MaxIdLen }

InitNames ==
    /\ templates_dir_exists = TRUE
    /\ store = EmptyStore
    /\ TEMPLATE_CACHE = <<>>
    /\ files = <<>>
    /\ file_loc = <<>>
    /\ processing_queue = <<>>
    /\ unidentified_tasks = <<>>
    /\ pc = "names_idle"
    /\ error = ""
    /\ ingest_idx = 1
    /\ stage2_idx = 1
    /\ seed_task = NoTask
    /\ new_template = NoTemplate
    /\ final_vendor_name = <<>>
    /\ prop_i = 0
    /\ pass_queue = <<>>
    /\ log = <<>>
    /\ probe = PathObject
    /\ candidates = <<>>
    /\ match_result = NoMatch
    /\ FeatureIdle
    /\ WarmIdle
    /\ ComponentsIdle

(* save_template(vendor_id, template_data) with a hash template.           *)
NameSave ==
    /\ pc = "names_idle"
    /\ \E v \in NameIds, io_ok \in BOOLEAN :
          /\ manager_call' = [NoCall EXCEPT !.op = "save", !.vendor_id = v,
                                            !.template_data = HashTemplate(v, 0, 0)]
          /\ store' = save_template(store, v, HashTemplate(v, 0, 0), io_ok)
          /\ manager_result' = [NoResult EXCEPT !.saved = (v # <<>> /\ io_ok)]
    /\ pc' = "names_saved"
    /\ UNCHANGED << TEMPLATE_CACHE, error, templates_dir_exists, manager_frame >>

(* load_and_cache_templates of a later run.                                *)
NameWarmUp ==
    /\ pc = "names_saved"
    /\ \E order \in GlobOrders(store) :
          LET w == WarmCache(ResetCache(TEMPLATE_CACHE), store, order)
          IN  /\ TEMPLATE_CACHE' = w.cache
              /\ IF w.error # "" THEN Crash(w.error)
                 ELSE pc' = "names_warmed" /\ UNCHANGED error
    /\ UNCHANGED << store, templates_dir_exists, manager_vars, manager_frame >>

NextNames == NameSave \/ NameWarmUp

SpecNames == InitNames /\ [][NextNames]_vars

(***************************************************************************)
(* C35: for every non-empty vendor id v, _sanitize_filename applied to the *)
(* stem of _sanitize_filename(v) gives _sanitize_filename(v) again, and    *)
(* the file save_template(v, t) wrote is found by the warm-up: calling     *)
(* load_template with the file's stem returns t, and the cache holds it.   *)
(***************************************************************************)
SavedFile == sanitize_filename(manager_call.vendor_id)

C35_SavedFileFoundByItsStem ==
    (pc = "names_warmed" /\ manager_result.saved) =>
        /\ sanitize_filename(Stem(SavedFile)) = SavedFile
        /\ load_template(store, Stem(SavedFile)).found
        /\ load_template(store, Stem(SavedFile)).data = manager_call.template_data
        /\ Len(TEMPLATE_CACHE) = 1
        /\ TEMPLATE_CACHE[1].full_template_data = manager_call.template_data

(***************************************************************************)
(* C36: a template the learning workflow has saved carries the triage hash *)
(* of the whole seed page, put in before the save; the cache entry         *)
(* appended for it holds the same hash as the saved record; and the seed   *)
(* page is at triage distance 0 from its own template and among the        *)
(* candidates of the triage tier.                                          *)
(***************************************************************************)
SeedImage == seed_task.processed_image_obj

SavedRecord == store[sanitize_filename(final_vendor_name)]

SavedNow == log # <<>> /\ Last(log).op = "save_template" /\ Last(log).hit

AppendedNow == log # <<>> /\ Last(log).op = "cache_append"

CarriesSeedTriageHash(template) ==
    /\ Has(template, "triage_hash")
    /\ HexValid(template.triage_hash)
    /\ hex_to_hash(template.triage_hash) = average_hash(SeedImage)
    /\ HashDistance(average_hash(SeedImage), hex_to_hash(template.triage_hash)) = 0

C36_SavedTemplateCarriesSeedTriageHash ==
    /\ SavedNow =>
          /\ sanitize_filename(final_vendor_name) \in DOMAIN store
          /\ SavedRecord = new_template
          /\ CarriesSeedTriageHash(SavedRecord)
    /\ AppendedNow =>
          /\ Last(TEMPLATE_CACHE).has_triage
          /\ Last(TEMPLATE_CACHE).full_template_data = new_template
          /\ Last(TEMPLATE_CACHE).precomputed_triage_hash = average_hash(SeedImage)
          /\ log[Len(log) - 1].hit =>
                Last(TEMPLATE_CACHE).precomputed_triage_hash
                  = hex_to_hash(SavedRecord.triage_hash)
          /\ TriagePass(Last(TEMPLATE_CACHE), average_hash(SeedImage))
          /\ \E k \in DOMAIN TriageCandidates(TEMPLATE_CACHE, SeedImage) :
                TriageCandidates(TEMPLATE_CACHE, SeedImage)[k] = Last(TEMPLATE_CACHE)
    /\ \A k \in IndicesOf(log, "save_template") :
          log[k].hit =>
              /\ sanitize_filename(log[k].vendor) \in DOMAIN store
              /\ Has(store[sanitize_filename(log[k].vendor)], "triage_hash")
              /\ HexValid(store[sanitize_filename(log[k].vendor)].triage_hash)

(* A saved template was appended to the cache; the seed page's average     *)
(* hash has bits set and differs from the hash of its identifier crop.     *)
C36_SeedSurvivesOwnTemplate ==
    /\ AppendedNow
    /\ log[Len(log) - 1].op = "save_template"
    /\ log[Len(log) - 1].hit
    /\ average_hash(SeedImage) # {}
    /\ average_hash(SeedImage) # phash_of_crop(SeedImage, AreaLogo)
    /\ Last(TEMPLATE_CACHE).precomputed_triage_hash = hex_to_hash(SavedRecord.triage_hash)

=============================================================================
